---- MODULE Spec2Model ----
(***************************************************************************)
(* A model of the TradeApp data store (src/context/DataContext.tsx): the   *)
(* three cached collections, the two persistence strategies, the PnL       *)
(* derivation of trades and the price refresh loop.                        *)
(*                                                                         *)
(* React state is modelled as it behaves: a handler reads the values of    *)
(* the render it was created in, its setState calls are queued (queue) and *)
(* applied by the next render (Render); side effects of a handler, such as *)
(* a localStorage write, happen at once.  A handler that awaits the        *)
(* backend is split at the await: the request is in inflight until the     *)
(* backend has handled it and the continuation has run.                    *)
(*                                                                         *)
(* Numbers: prices and sizes are small naturals; a quotient is kept as an  *)
(* exact fraction <<n, d>> in lowest terms with d > 0, and <<1,0>>,        *)
(* <<-1,0>>, <<0,0>> stand for Infinity, -Infinity and NaN.  An absent     *)
(* value (null) is <<>> and a present number p is <<p>>.                   *)
(***************************************************************************)
EXTENDS Integers, Sequences, FiniteSets, TLC

\* ------------------------------------------------------------------ bounds

\* Most calls of the trade handlers (addTrade, editTrade, deleteTrade,
\* clearTrades) explored in one behaviour of SpecTrade.
MaxTradeOps == 2
\* Most trades held when SpecTrade explores a further addTrade.
MaxTrades == 2

\* ------------------------------------------------------------ value domains

Null == <<>>
Num(p) == <<p>>

Direction == {"Long", "Short"}
TradeStatus == {"Open", "Win", "Loss", "Breakeven"}
Sentiment == {"Bullish", "Bearish", "Neutral", "Mixed"}
AssetType == {"Crypto", "Stock"}

\* The three collections, named by their localStorage keys; the remote
\* tables are journal_entries, portfolio_items and trades.
Keys == {"journalEntries", "portfolioItems", "trades"}

\* --------------------------------------------------------------- arithmetic

Abs(n) == IF n < 0 THEN -n ELSE n
Sign(n) == IF n < 0 THEN -1 ELSE IF n > 0 THEN 1 ELSE 0

RECURSIVE GCD(_, _)
GCD(a, b) == IF b = 0 THEN a ELSE GCD(b, a % b)

\* The number n / d as JavaScript's division gives it.
Quot(n, d) ==
  IF d = 0 THEN <<Sign(n), 0>>
  ELSE LET g == GCD(Abs(n), Abs(d))
           s == IF d < 0 THEN -1 ELSE 1
       IN  IF n = 0 THEN <<0, 1>> ELSE <<(s * n) \div g, (s * d) \div g>>

\* The product of the number q (a fraction) and the integer k.
Times(q, k) ==
  IF q[2] = 0
  THEN (IF q[1] = 0 \/ k = 0 THEN <<0, 0>> ELSE <<q[1] * Sign(k), 0>>)
  ELSE Quot(q[1] * k, q[2])

\* JavaScript truthiness of a value that is null or a number.
Truthy(x) == x # Null /\ x[1] # 0

\* ((exit - entry) / entry) * size for Long, ((entry - exit) / entry) * size
\* otherwise.
ComputePnl(direction, entry, exit, size) ==
  IF direction = "Long"
  THEN Times(Quot(exit - entry, entry), size)
  ELSE Times(Quot(entry - exit, entry), size)

\* ------------------------------------------------------------------ records

\* { ...a, ...b }: the fields of a, overridden by the fields b carries.
Spread(a, b) ==
  [f \in DOMAIN a \cup DOMAIN b |-> IF f \in DOMAIN b THEN b[f] ELSE a[f]]

Restrict(r, S) == [f \in S |-> r[f]]

Ids(s) == {s[i].id : i \in 1..Len(s)}

\* [...s, rec]: the record put last.
PrependLast(rec, s) == Append(s, rec)

\* [rec, ...s]
Prepend(rec, s) == <<rec>> \o s

Find(s, id) == SelectSeq(s, LAMBDA r : r.id = id)

\* s.filter(r => r.id === id): the records a filter on equality keeps.
FilterInverted(s, id) == SelectSeq(s, LAMBDA r : r.id = id)

\* s.filter(r => r.id !== id)
Filter(s, id) == SelectSeq(s, LAMBDA r : r.id # id)

\* prev.map(t => t.id === id ? rec : t)
Replace(s, id, rec) == [i \in 1..Len(s) |-> IF s[i].id = id THEN rec ELSE s[i]]

\* prev.map(item => item.id === id ? { ...item, ...updates } : item)
MergeInto(s, id, updates) ==
  [i \in 1..Len(s) |-> IF s[i].id = id THEN Spread(s[i], updates) ELSE s[i]]

\* JSON.stringify of a collection, as the array JSON.parse gives back: a
\* number that is not finite is written as null.
StringifyRecord(r) ==
  [f \in DOMAIN r |->
     IF f = "pnl" /\ r[f] # Null /\ r[f][2] = 0 THEN Null ELSE r[f]]

Stringify(s) == [json |-> [i \in 1..Len(s) |-> StringifyRecord(s[i])]]

Parse(text) == text.json

\* ------------------------------------------------------------- sample data

\* The built-in records of src/constants (JOURNAL_ENTRIES, PORTFOLIO_ITEMS,
\* TRADES), which seed a collection whose localStorage key is absent.
JOURNAL_ENTRIES ==
  << [id |-> 1, date |-> 1, macroReview |-> "M", altsMarket |-> "A",
      summary |-> "S", sentiment |-> "Neutral"] >>

PORTFOLIO_ITEMS ==
  << [id |-> 1, token |-> "BTC", amount |-> 1, buyPrice |-> 1,
      currentPrice |-> 1, category |-> "Liquid", assetType |-> "Crypto"] >>

TRADES ==
  << [id |-> 1, direction |-> "Long", entryPrice |-> 1, exitPrice |-> Num(2),
      size |-> 1, status |-> "Win", pnl |-> <<1, 1>>] >>

Defaults(k) ==
  CASE k = "journalEntries" -> JOURNAL_ENTRIES
    [] k = "portfolioItems" -> PORTFOLIO_ITEMS
    [] k = "trades" -> TRADES

Range(s) == {s[i] : i \in 1..Len(s)}

\* -------------------------------------------------------------------- state

VARIABLES
  env,             \* import.meta.env: the two settings, each Null or <<text>>
  mounted,         \* the provider is mounted
  formData,        \* the state of the trade form (its fields are texts)
  loading,         \* useState(true)
  journalEntries,  \* the cached collections, as of the last render
  portfolioItems,
  trades,
  livePrices,      \* ticker -> price, as of the last render
  lastUpdated,     \* 0 for null, else the time of the merge recorded last
  isRefreshing,
  queue,           \* setState calls made since the last render, in order
  ls,              \* localStorage: key -> Null, or <<stored text>>
  db,              \* remote tables: key -> set of rows
  inflight,        \* persistence requests sent and not yet continued
  fetchPc,         \* position of fetchData (the mount effect)
  fetched,         \* results of the selects fetchData has awaited so far
  cycles,          \* refreshPrices calls awaiting the price feed
  interval,        \* the repeating timer: Null, or <<the refreshPrices it calls>>
  timeouts,        \* pending setTimeout(refreshPrices, 500): the refreshPrices each calls
  effectDeps,      \* [loading, portfolioItems.length] as the polling effect last saw them
  last,            \* the step taken last (history, read by the properties only)
  calls            \* number of handler calls so far (bounds the exploration)

storeVars == <<journalEntries, portfolioItems, trades>>
\* React state: only a render changes it.
rendered == <<loading, journalEntries, portfolioItems, trades, livePrices, lastUpdated,
              isRefreshing>>
fetchVars == <<fetchPc, fetched>>
vars == <<env, mounted, formData, loading, journalEntries, portfolioItems, trades, livePrices,
          lastUpdated, isRefreshing, queue, ls, db, inflight, fetchPc, fetched,
          cycles, interval, timeouts, effectDeps, last, calls>>

\* JavaScript truthiness of a setting: a text that is present and not empty.
TruthyText(x) == x # Null /\ x[1] # ""

supabaseUrl == env.VITE_SUPABASE_URL
supabaseKey == env.VITE_SUPABASE_ANON_KEY

\* A client created as soon as the URL is given.
supabaseIfUrl ==
  IF TruthyText(supabaseUrl) THEN <<[url |-> supabaseUrl[1], key |-> ""]>> ELSE Null

\* supabaseUrl && supabaseKey ? createClient(supabaseUrl, supabaseKey) : null
supabase ==
  IF TruthyText(supabaseUrl) /\ TruthyText(supabaseKey)
  THEN <<[url |-> supabaseUrl[1], key |-> supabaseKey[1]]>>
  ELSE Null

isSupabaseConfigured == supabase # Null

\* isSupabaseConfigured && supabase: the remote strategy is selected.
configured == isSupabaseConfigured /\ supabase # Null

Coll(k) ==
  CASE k = "journalEntries" -> journalEntries
    [] k = "portfolioItems" -> portfolioItems
    [] k = "trades" -> trades

\* ---------------------------------------------------------- queued updates

\* A queued setState call on state variable var: a value ("set") or an
\* updater function of the previous value ("stamp" is setLastUpdated(new
\* Date()): a time later than every earlier one).
Upd(var, kind, id, val) == [var |-> var, kind |-> kind, id |-> id, val |-> val]

ApplyUpd(cur, u) ==
  CASE u.kind = "set" -> u.val
    [] u.kind = "prepend" -> Prepend(u.val, cur)
    [] u.kind = "remove" -> Filter(cur, u.id)
    [] u.kind = "replace" -> Replace(cur, u.id, u.val)
    [] u.kind = "merge" -> MergeInto(cur, u.id, u.val)
    [] u.kind = "stamp" -> cur + 1

RECURSIVE Fold(_, _, _)
Fold(q, var, cur) ==
  IF q = <<>> THEN cur
  ELSE Fold(Tail(q), var, IF Head(q).var = var THEN ApplyUpd(cur, Head(q)) ELSE cur)

\* The value of state variable var after the queued updates are applied.
Rendered(var, cur) == Fold(queue, var, cur)

\* ---------------------------------------------------------------------- ids

\* The ids of collection k that some part of the state still refers to.
QueuedIds(k) ==
  UNION { IF queue[i].var # k THEN {}
          ELSE IF queue[i].kind = "set" THEN Ids(queue[i].val)
          ELSE IF queue[i].kind = "prepend" THEN {queue[i].val.id}
          ELSE {queue[i].id} : i \in 1..Len(queue) }

UsedIds(k) ==
  Ids(Coll(k)) \cup QueuedIds(k) \cup {r.id : r \in db[k]}
    \cup {r.id : r \in {x \in inflight : x.coll = k}}
    \cup (IF ls[k] = Null THEN {} ELSE Ids(Parse(ls[k][1])))
    \cup Ids(Defaults(k))

\* crypto.randomUUID(): an id nothing refers to (the least such, so that
\* equal collections are one state).
NewId(k) ==
  CHOOSE i \in 1..(Cardinality(UsedIds(k)) + 1) :
    i \notin UsedIds(k) /\ \A j \in 1..(i - 1) : j \in UsedIds(k)

\* ------------------------------------------------------------- localStorage

\* A persistToLS that writes nothing.
PersistNever(key, data) == ls

\* A persistToLS that writes every collection under one key.
PersistWrongKey(key, data) ==
  IF ~isSupabaseConfigured THEN [ls EXCEPT !["portfolioItems"] = <<Stringify(data)>>] ELSE ls

\* persistToLS(key, data): localStorage after the call.
PersistToLS(key, data) ==
  IF ~isSupabaseConfigured THEN [ls EXCEPT ![key] = <<Stringify(data)>>] ELSE ls

\* ------------------------------------------------------------------ history

\* What the step taken last did: the handler or callback (task), how far it
\* has come ("called", "handled" by the backend, "continued" after its
\* await, "rendered"), whether it succeeded, its argument, and whether the
\* render started the polling effect's refresh; wrote is <<keys>> when the
\* step queued the result of a refreshPrices cycle that fetched or
\* synthesized the prices of keys.
Did(task, phase, ok, arg) ==
  [task |-> task, phase |-> phase, ok |-> ok, arg |-> arg, effect |-> FALSE,
   wrote |-> Null]

\* --------------------------------------------------------------- the backend

\* A request of a handler that awaits the backend.  cont is what the
\* continuation needs beside the request: for editTrade the finalTrade it
\* computed before the await, for addPortfolioItem and editPortfolioItem the
\* refreshPrices of the render the handler belongs to.  stage is "sent"
\* until the backend has handled the request, then "ok" or "error".
Request(task, coll, op, id, val, cont) ==
  [task |-> task, coll |-> coll, op |-> op, id |-> id, val |-> val, cont |-> cont,
   stage |-> "sent"]

\* The table after the backend has carried out request r.
TableAfter(rows, r) ==
  CASE r.op = "insert" -> rows \cup {r.val}
    [] r.op = "update" -> {IF x.id = r.id THEN Spread(x, r.val) ELSE x : x \in rows}
    [] r.op = "delete" -> {x \in rows : x.id # r.id}
    [] r.op = "deleteAll" -> {}

\* The backend handles request r and reports success or an error.
BackendHandle(r, ok) ==
  /\ r \in inflight /\ r.stage = "sent"
  /\ inflight' = (inflight \ {r}) \cup {[r EXCEPT !.stage = IF ok THEN "ok" ELSE "error"]}
  /\ db' = IF ok THEN [db EXCEPT ![r.coll] = TableAfter(db[r.coll], r)] ELSE db
  /\ last' = Did(r.task, "handled", ok, r.id)
  /\ UNCHANGED <<env, mounted, formData, rendered, queue, ls, fetchVars, cycles, interval, timeouts,
                 effectDeps>>

\* A task (an event handler, a timer callback, the continuation of an await)
\* starts only after the updates queued by the task before it are rendered.
\* On the local strategy fetchData has run to its end before the first event.
Idle == queue = <<>> /\ (IF configured THEN fetchPc # "init" ELSE fetchPc = "done")
CanSend == configured /\ Idle
CanRunLocal == ~configured /\ Idle

\* The refreshPrices of the current render: it reads this render's
\* portfolioItems and livePrices.
RefreshPricesNow == [items |-> portfolioItems, prices |-> livePrices]

\* ----------------------------------------------------------------- handlers

\* The remote branch of a handler up to its await: the request is sent.
Remote(request) ==
  /\ CanSend
  /\ inflight' = inflight \cup {request}
  /\ UNCHANGED <<queue, ls>>

\* The local branch of a handler: setX(updated), then
\* persistToLS(key, updated), whose localStorage.setItem stores the text or
\* throws (the quota is exceeded, the storage is disabled); a throw ends the
\* handler.
Local(key, updated, stored) ==
  /\ CanRunLocal
  /\ queue' = Append(queue, Upd(key, "set", 0, updated))
  /\ ls' = IF stored THEN PersistToLS(key, updated) ELSE ls
  /\ UNCHANGED inflight

\* ------------------------------------------------------------------ journal

AddJournalEntry(entry) ==
  LET newEntry == Spread(entry, [id |-> NewId("journalEntries")]) IN
  /\ \/ /\ Remote(Request("addJournalEntry", "journalEntries", "insert", newEntry.id, newEntry,
                           Null))
        /\ last' = Did("addJournalEntry", "called", TRUE, entry)
     \/ \E stored \in BOOLEAN :
          /\ Local("journalEntries", Prepend(newEntry, journalEntries), stored)
          /\ last' = Did("addJournalEntry", "called", stored, entry)
  /\ UNCHANGED <<env, mounted, formData, rendered, db, fetchVars, cycles, interval, timeouts, effectDeps>>

DeleteJournalEntry(id) ==
  /\ \/ /\ Remote(Request("deleteJournalEntry", "journalEntries", "delete", id, Null,
                           Null))
        /\ last' = Did("deleteJournalEntry", "called", TRUE, id)
     \/ \E stored \in BOOLEAN :
          /\ Local("journalEntries", Filter(journalEntries, id), stored)
          /\ last' = Did("deleteJournalEntry", "called", stored, id)
  /\ UNCHANGED <<env, mounted, formData, rendered, db, fetchVars, cycles, interval, timeouts, effectDeps>>

\* The updates a handler queues after its await.
ContinueAlways(r) ==
  CASE r.op = "insert" -> <<Upd(r.coll, "prepend", 0, r.val)>>
    [] r.op = "update" /\ r.coll = "trades" -> <<Upd(r.coll, "replace", r.id, r.cont)>>
    [] r.op = "update" /\ r.coll # "trades" -> <<Upd(r.coll, "merge", r.id, r.val)>>
    [] r.op = "delete" -> <<Upd(r.coll, "remove", r.id, Null)>>
    [] r.op = "deleteAll" -> <<Upd(r.coll, "set", 0, <<>>)>>

\* if (!error) setX(prev => ...)
Continue(r) == IF r.stage = "error" THEN <<>> ELSE ContinueAlways(r)

\* The continuation of a journal or trade handler after its await.
Reply(r) ==
  /\ Idle
  /\ r \in inflight /\ r.coll # "portfolioItems" /\ r.stage # "sent"
  /\ inflight' = inflight \ {r}
  /\ queue' = queue \o Continue(r)
  /\ last' = Did(r.task, "continued", r.stage = "ok", IF r.op = "insert" THEN r.val ELSE r.id)
  /\ UNCHANGED <<env, mounted, formData, rendered, ls, db, fetchVars, cycles, interval, timeouts,
                 effectDeps>>

\* ---------------------------------------------------------------- portfolio

AddPortfolioItem(item) ==
  LET newItem == Spread(item, [id |-> NewId("portfolioItems")]) IN
  /\ \/ /\ Remote(Request("addPortfolioItem", "portfolioItems", "insert", newItem.id, newItem,
                           RefreshPricesNow))
        /\ last' = Did("addPortfolioItem", "called", TRUE, item)
        /\ UNCHANGED timeouts
     \/ \E stored \in BOOLEAN :
          /\ Local("portfolioItems", Prepend(newItem, portfolioItems), stored)
          /\ timeouts' = IF stored THEN timeouts \cup {RefreshPricesNow} ELSE timeouts
          /\ last' = Did("addPortfolioItem", "called", stored, item)
  /\ UNCHANGED <<env, mounted, formData, rendered, db, fetchVars, cycles, interval, effectDeps>>

EditPortfolioItem(id, updates) ==
  /\ \/ /\ Remote(Request("editPortfolioItem", "portfolioItems", "update", id, updates,
                           RefreshPricesNow))
        /\ last' = Did("editPortfolioItem", "called", TRUE, id)
        /\ UNCHANGED timeouts
     \/ \E stored \in BOOLEAN :
          /\ Local("portfolioItems", MergeInto(portfolioItems, id, updates), stored)
          /\ timeouts' = IF stored THEN timeouts \cup {RefreshPricesNow} ELSE timeouts
          /\ last' = Did("editPortfolioItem", "called", stored, id)
  /\ UNCHANGED <<env, mounted, formData, rendered, db, fetchVars, cycles, interval, effectDeps>>

DeletePortfolioItem(id) ==
  /\ \/ /\ Remote(Request("deletePortfolioItem", "portfolioItems", "delete", id, Null,
                           Null))
        /\ last' = Did("deletePortfolioItem", "called", TRUE, id)
     \/ \E stored \in BOOLEAN :
          /\ Local("portfolioItems", Filter(portfolioItems, id), stored)
          /\ last' = Did("deletePortfolioItem", "called", stored, id)
  /\ UNCHANGED <<env, mounted, formData, rendered, db, fetchVars, cycles, interval, timeouts, effectDeps>>

\* The continuation of a portfolio handler after its await; addPortfolioItem
\* and editPortfolioItem then call setTimeout(refreshPrices, 500), whatever
\* the backend reported.
PortfolioReply(r) ==
  /\ Idle
  /\ r \in inflight /\ r.coll = "portfolioItems" /\ r.stage # "sent"
  /\ inflight' = inflight \ {r}
  /\ queue' = queue \o Continue(r)
  /\ timeouts' = IF r.op = "delete" THEN timeouts ELSE timeouts \cup {r.cont}
  /\ last' = Did(r.task, "continued", r.stage = "ok", r.id)
  /\ UNCHANGED <<env, mounted, formData, rendered, ls, db, fetchVars, cycles, interval, effectDeps>>

\* ------------------------------------------------------------------- trades

\* The pnl addTrade stores for tradeData.
AddPnl(tradeData) ==
  IF tradeData.status # "Open" /\ Truthy(tradeData.exitPrice)
  THEN ComputePnl(tradeData.direction, tradeData.entryPrice,
                  tradeData.exitPrice[1], tradeData.size)
  ELSE Null

NewTrade(tradeData) ==
  Spread(tradeData, [id |-> NewId("trades"), pnl |-> AddPnl(tradeData)])

AddTrade(tradeData) ==
  LET newTrade == NewTrade(tradeData) IN
  /\ \/ /\ Remote(Request("addTrade", "trades", "insert", newTrade.id, newTrade,
                           Null))
        /\ last' = Did("addTrade", "called", TRUE, tradeData)
     \/ \E stored \in BOOLEAN :
          /\ Local("trades", Prepend(newTrade, trades), stored)
          /\ last' = Did("addTrade", "called", stored, tradeData)
  /\ UNCHANGED <<env, mounted, formData, rendered, db, fetchVars, cycles, interval, timeouts, effectDeps>>

\* An editTrade without its else-if branch: a reopened trade keeps its pnl.
EditPnlKeepsOld(currentTrade, mergedTrade) ==
  IF mergedTrade.status # "Open" /\ Truthy(mergedTrade.exitPrice)
  THEN ComputePnl(mergedTrade.direction, mergedTrade.entryPrice,
                  mergedTrade.exitPrice[1], mergedTrade.size)
  ELSE currentTrade.pnl

\* The pnl editTrade stores when the trade currentTrade becomes mergedTrade.
EditPnl(currentTrade, mergedTrade) ==
  IF mergedTrade.status # "Open" /\ Truthy(mergedTrade.exitPrice)
  THEN ComputePnl(mergedTrade.direction, mergedTrade.entryPrice,
                  mergedTrade.exitPrice[1], mergedTrade.size)
  ELSE IF mergedTrade.status = "Open" THEN Null
  ELSE currentTrade.pnl

FinalTrade(currentTrade, updates) ==
  LET mergedTrade == Spread(currentTrade, updates)
  IN  Spread(mergedTrade, [pnl |-> EditPnl(currentTrade, mergedTrade)])

\* An editTrade without its early return: it writes whether or not the
\* trade is held.
EditTradeUnchecked(id, updates) ==
  LET finalTrade == IF id \in Ids(trades) THEN FinalTrade(Find(trades, id)[1], updates)
                    ELSE Null IN
  /\ \/ /\ Remote(Request("editTrade", "trades", "update", id, updates, finalTrade))
        /\ last' = Did("editTrade", "called", TRUE, id)
     \/ \E stored \in BOOLEAN :
          /\ Local("trades", IF id \in Ids(trades) THEN Replace(trades, id, finalTrade)
                             ELSE trades, stored)
          /\ last' = Did("editTrade", "called", stored, id)
  /\ UNCHANGED <<env, mounted, formData, rendered, db, fetchVars, cycles, interval, timeouts, effectDeps>>

EditTrade(id, updates) ==
  /\ \/ /\ id \notin Ids(trades)
        /\ Idle
        /\ last' = Did("editTrade", "called", FALSE, id)
        /\ UNCHANGED <<inflight, queue, ls>>
     \/ /\ id \in Ids(trades)
        /\ LET finalTrade == FinalTrade(Find(trades, id)[1], updates) IN
           \/ /\ Remote(Request("editTrade", "trades", "update", id,
                                Spread(updates, [pnl |-> finalTrade.pnl]), finalTrade))
              /\ last' = Did("editTrade", "called", TRUE, id)
           \/ \E stored \in BOOLEAN :
                /\ Local("trades", Replace(trades, id, finalTrade), stored)
                /\ last' = Did("editTrade", "called", stored, id)
  /\ UNCHANGED <<env, mounted, formData, rendered, db, fetchVars, cycles, interval, timeouts, effectDeps>>

DeleteTrade(id) ==
  /\ \/ /\ Remote(Request("deleteTrade", "trades", "delete", id, Null,
                           Null))
        /\ last' = Did("deleteTrade", "called", TRUE, id)
     \/ \E stored \in BOOLEAN :
          /\ Local("trades", Filter(trades, id), stored)
          /\ last' = Did("deleteTrade", "called", stored, id)
  /\ UNCHANGED <<env, mounted, formData, rendered, db, fetchVars, cycles, interval, timeouts, effectDeps>>

ClearTrades ==
  /\ \/ /\ Remote(Request("clearTrades", "trades", "deleteAll", 0, Null,
                           Null))
        /\ last' = Did("clearTrades", "called", TRUE, 0)
     \/ \E stored \in BOOLEAN :
          /\ Local("trades", <<>>, stored)
          /\ last' = Did("clearTrades", "called", stored, 0)
  /\ UNCHANGED <<env, mounted, formData, rendered, db, fetchVars, cycles, interval, timeouts, effectDeps>>

\* ------------------------------------------------------------ refreshPrices

\* String.toUpperCase on the tickers of this model.
ToUpperCase(t) ==
  CASE t = "btc" -> "BTC"
    [] t = "eth" -> "ETH"
    [] t = "aapl" -> "AAPL"
    [] t = "msft" -> "MSFT"
    [] OTHER -> t

\* item.assetType === 'Crypto' || !item.assetType ("" is a missing type)
IsCrypto(item) == item.assetType = "Crypto" \/ item.assetType = ""

CryptoTickers(items) ==
  {ToUpperCase(items[i].token) : i \in {j \in 1..Len(items) : IsCrypto(items[j])}}

StockItems(items) == SelectSeq(items, LAMBDA item : ~IsCrypto(item))

\* One step of the random walk: Number((current * change).toFixed(2)) with
\* change within 0.5 % of 1 stays at current or moves to a neighbouring
\* price.  The model has two price levels, 1 and 2; delta says whether the
\* price moves to the other.
Deltas == {0, 1}

Walk(current, delta) == IF delta = 0 THEN current ELSE IF current = 1 THEN 2 ELSE 1

\* newPrices after the stockItems loop; w[i] is the random step of item i.
RECURSIVE Synthesize(_, _, _)
Synthesize(stockItems, newPrices, w) ==
  IF stockItems = <<>> THEN newPrices
  ELSE LET item == Head(stockItems)
           current == IF item.token \in DOMAIN newPrices /\ newPrices[item.token] # 0
                      THEN newPrices[item.token] ELSE item.currentPrice
       IN  Synthesize(Tail(stockItems),
                      Spread(newPrices, [t \in {item.token} |-> Walk(current, Head(w))]),
                      Tail(w))

WalkChoices(items) == [1..Len(StockItems(items)) -> Deltas]

\* The map a cycle writes: what its refreshPrices read as livePrices when
\* it was created, overridden by the feed's data and the synthetic prices.
NewPrices(c, data, w) == Synthesize(StockItems(c.items), Spread(c.prices, data), w)

\* The keys a cycle fetched or synthesized.
WrittenKeys(c, data) ==
  DOMAIN data \cup {StockItems(c.items)[i].token : i \in 1..Len(StockItems(c.items))}

RefreshDone(newPrices) ==
  << Upd("livePrices", "set", 0, newPrices),
     Upd("lastUpdated", "stamp", 0, Null),
     Upd("isRefreshing", "set", 0, FALSE) >>

\* Whether the call of refreshPrices c awaits the price feed.
Awaits(c) == Len(c.items) > 0 /\ CryptoTickers(c.items) # {}

\* The updates the call of refreshPrices c queues before it returns or
\* awaits: nothing for an empty collection; the whole cycle when there is
\* no crypto ticker to fetch.
\* A refreshPrices without its early return.
RefreshQueuedAlways(c, w) ==
  IF Awaits(c) THEN <<Upd("isRefreshing", "set", 0, TRUE)>>
  ELSE <<Upd("isRefreshing", "set", 0, TRUE)>> \o RefreshDone(NewPrices(c, <<>>, w))

RefreshQueued(c, w) ==
  IF Len(c.items) = 0 THEN <<>>
  ELSE IF Awaits(c) THEN <<Upd("isRefreshing", "set", 0, TRUE)>>
  ELSE <<Upd("isRefreshing", "set", 0, TRUE)>> \o RefreshDone(NewPrices(c, <<>>, w))

\* The keys whose prices the call of refreshPrices c queued before it
\* returned, if it queued a result.
WroteAtCall(c) ==
  IF Len(c.items) > 0 /\ ~Awaits(c) THEN <<WrittenKeys(c, <<>>)>> ELSE Null

\* A cycle awaiting the feed, started by by ("effect", "interval",
\* "timeout", "manual"); n tells cycles of the same refreshPrices apart.
\* Two fields are history, read by the properties only: before is the
\* live-price map on screen when the cycle started, met the keys fetched or
\* synthesized by the cycles that completed while this one was awaiting.
Cycle(c, by) ==
  [c |-> c, by |-> by,
   n |-> CHOOSE i \in 1..(Cardinality(cycles) + 1) :
           i \notin {x.n : x \in {y \in cycles : y.c = c /\ y.by = by}},
   before |-> IF by = "effect" THEN c.prices ELSE livePrices,
   met |-> {}]

\* The cycles still awaiting when cycle cy completes, having written keys.
StillAwaiting(cy, keys) == {[x EXCEPT !.met = @ \cup keys] : x \in cycles \ {cy}}

CyclesAfter(c, by) == IF Awaits(c) THEN cycles \cup {Cycle(c, by)} ELSE cycles

\* The random steps the call of refreshPrices c takes before it returns or
\* awaits.
WalksAtCall(c) == IF Len(c.items) > 0 /\ ~Awaits(c) THEN WalkChoices(c.items) ELSE {<<>>}

\* A call of the refreshPrices c, up to its return or its await.
RefreshPrices(c, by, w) ==
  /\ w \in WalksAtCall(c)
  /\ queue' = queue \o RefreshQueued(c, w)
  /\ cycles' = CyclesAfter(c, by)
  /\ last' = [Did("refreshPrices", "called", TRUE, by) EXCEPT !.wrote = WroteAtCall(c)]

\* The refresh button of the portfolio view, which is disabled while
\* isRefreshing is true.
ManualRefresh(w) ==
  /\ Idle
  /\ ~isRefreshing
  /\ RefreshPrices(RefreshPricesNow, "manual", w)
  /\ UNCHANGED <<env, mounted, formData, rendered, ls, db, inflight, fetchVars, interval, timeouts,
                 effectDeps>>

\* setInterval(refreshPrices, 15000) fires: the refreshPrices of the render
\* in which the polling effect ran is called.
IntervalTick(w) ==
  /\ Idle
  /\ interval # Null
  /\ RefreshPrices(interval[1], "interval", w)
  /\ UNCHANGED <<env, mounted, formData, rendered, ls, db, inflight, fetchVars, interval, timeouts,
                 effectDeps>>

\* A setTimeout(refreshPrices, 500) of addPortfolioItem or editPortfolioItem
\* fires: the refreshPrices of the handler's render is called.
TimeoutFires(c, w) ==
  /\ Idle
  /\ c \in timeouts
  /\ timeouts' = timeouts \ {c}
  /\ RefreshPrices(c, "timeout", w)
  /\ UNCHANGED <<env, mounted, formData, rendered, ls, db, inflight, fetchVars, interval, effectDeps>>

\* The prices the feed may answer with.
FeedPrices == {2}

\* The answers of the feed to a request for tickers: a price for each
\* ticker it knows.
FeedData(tickers) == UNION {[S -> FeedPrices] : S \in SUBSET tickers}

\* The feed answers cycle cy with data; the rest of the cycle runs.
FeedReply(cy, data, w) ==
  /\ Idle
  /\ cy \in cycles
  /\ data \in FeedData(CryptoTickers(cy.c.items))
  /\ w \in WalkChoices(cy.c.items)
  /\ cycles' = StillAwaiting(cy, WrittenKeys(cy.c, data))
  /\ queue' = queue \o RefreshDone(NewPrices(cy.c, data, w))
  /\ last' = [Did("refreshPrices", "continued", TRUE, cy.by)
                EXCEPT !.wrote = <<WrittenKeys(cy.c, data)>>]
  /\ UNCHANGED <<env, mounted, formData, rendered, ls, db, inflight, fetchVars, interval, timeouts,
                 effectDeps>>

\* The request of cycle cy fails, or its answer cannot be read: the catch
\* logs and the rest of the cycle runs.
FeedFails(cy, w) ==
  /\ Idle
  /\ cy \in cycles
  /\ w \in WalkChoices(cy.c.items)
  /\ cycles' = StillAwaiting(cy, WrittenKeys(cy.c, <<>>))
  /\ queue' = queue \o RefreshDone(NewPrices(cy.c, <<>>, w))
  /\ last' = [Did("refreshPrices", "continued", FALSE, cy.by)
                EXCEPT !.wrote = <<WrittenKeys(cy.c, <<>>)>>]
  /\ UNCHANGED <<env, mounted, formData, rendered, ls, db, inflight, fetchVars, interval, timeouts,
                 effectDeps>>

\* ------------------------------------------------------------------- render

\* A cleanup that clears no timer.
ClearNothing(timers) == timers

\* return () => clearInterval(interval): the cleanup of a run of the
\* polling effect clears the timer that run set, the latest one.
ClearInterval(timers) ==
  IF timers = <<>> THEN <<>> ELSE SubSeq(timers, 1, Len(timers) - 1)

\* A polling effect that depends on loading alone.
EffectRunsOnLoad(deps) == deps[1] # effectDeps[1]

\* The polling effect runs in a render in which one of its dependencies,
\* [loading, portfolioItems.length], has changed.
EffectRuns(deps) == deps # effectDeps

\* React applies the queued updates, and the handlers of the new render
\* read the new values.  Then the polling effect runs if loading or
\* portfolioItems.length changed: its cleanup clears the repeating timer,
\* and with the load finished and a non-empty collection it calls
\* refreshPrices and sets the timer anew, both with this render's
\* refreshPrices.
Render(w) ==
  /\ mounted
  /\ queue # <<>>
  /\ LET nowLoading == Rendered("loading", loading)
         nowItems == Rendered("portfolioItems", portfolioItems)
         nowPrices == Rendered("livePrices", livePrices)
         deps == <<nowLoading, Len(nowItems)>>
         c == [items |-> nowItems, prices |-> nowPrices]
         runs == EffectRuns(deps)
         starts == runs /\ ~nowLoading /\ Len(nowItems) > 0
     IN  /\ w \in (IF starts THEN WalksAtCall(c) ELSE {<<>>})
         /\ loading' = nowLoading
         /\ portfolioItems' = nowItems
         /\ livePrices' = nowPrices
         /\ journalEntries' = Rendered("journalEntries", journalEntries)
         /\ trades' = Rendered("trades", trades)
         /\ lastUpdated' = Rendered("lastUpdated", lastUpdated)
         /\ isRefreshing' = Rendered("isRefreshing", isRefreshing)
         /\ effectDeps' = deps
         /\ interval' = IF ~runs THEN interval
                        ELSE ClearInterval(interval) \o (IF starts THEN <<c>> ELSE <<>>)
         /\ queue' = IF starts THEN RefreshQueued(c, w) ELSE <<>>
         /\ cycles' = IF starts THEN CyclesAfter(c, "effect") ELSE cycles
         /\ last' = [last EXCEPT !.phase = "rendered", !.effect = starts,
                                 !.wrote = IF starts THEN WroteAtCall(c) ELSE Null]
  /\ UNCHANGED <<env, mounted, formData, ls, db, inflight, fetchVars, timeouts>>

\* ----------------------------------------------------------------- teardown

\* A teardown whose cleanup leaves the repeating timer running.
UnmountKeepsTimer ==
  /\ mounted /\ fetchPc = "done" /\ ~loading
  /\ mounted' = FALSE
  /\ last' = Did("unmount", "called", TRUE, Null)
  /\ UNCHANGED <<env, formData, rendered, queue, ls, db, inflight, fetchVars, cycles, interval,
                 timeouts, effectDeps>>

\* The provider is torn down after the load: the cleanup of the polling
\* effect, return () => clearInterval(interval), runs if the effect had set
\* the timer.  Nothing else is cancelled.
Unmount ==
  /\ mounted /\ fetchPc = "done" /\ ~loading
  /\ mounted' = FALSE
  /\ interval' = Null
  /\ last' = Did("unmount", "called", TRUE, Null)
  /\ UNCHANGED <<env, formData, rendered, queue, ls, db, inflight, fetchVars, cycles, timeouts,
                 effectDeps>>

\* The setters of a provider that is torn down have no state to update:
\* what was queued is dropped, not rendered.
Discard ==
  /\ ~mounted
  /\ queue # <<>>
  /\ queue' = <<>>
  /\ last' = [last EXCEPT !.phase = "discarded"]
  /\ UNCHANGED <<env, mounted, formData, rendered, ls, db, inflight, fetchVars, cycles, interval,
                 timeouts, effectDeps>>

\* ---------------------------------------------------------------- fetchData

\* The rows a select may return: every row of the table once, ordered by
\* date descending where the query orders (journal_entries; trades carry no
\* date in this model, so any order is possible), in any order otherwise.
SelectAll(k) ==
  LET rows == IF k \in Keys THEN db[k] ELSE {}
      n == Cardinality(rows)
  IN  { s \in [1..n -> rows] :
          /\ \A i, j \in 1..n : i # j => s[i] # s[j]
          /\ k = "journalEntries" =>
               \A i, j \in 1..n : i < j => s[i].date >= s[j].date }

NextKey(k) ==
  CASE k = "journalEntries" -> "portfolioItems"
    [] k = "portfolioItems" -> "trades"
    [] k = "trades" -> "done"

\* if (data) setX(data)
SetLoaded(k, got) == IF got = Null THEN <<>> ELSE <<Upd(k, "set", 0, got[1])>>

\* A load that ignores what is stored.
LoadDefaults(k) == Defaults(k)

\* localStorage.getItem(key) ? JSON.parse(...) : built-in records
LoadLocal(k) == IF ls[k] # Null THEN Parse(ls[k][1]) ELSE Defaults(k)

\* The mount effect on the local strategy: fetchData runs to its end.
FetchDataLocal ==
  /\ ~configured /\ fetchPc = "init"
  /\ queue' = queue \o << Upd("loading", "set", 0, TRUE),
                          Upd("journalEntries", "set", 0, LoadLocal("journalEntries")),
                          Upd("portfolioItems", "set", 0, LoadLocal("portfolioItems")),
                          Upd("trades", "set", 0, LoadLocal("trades")),
                          Upd("loading", "set", 0, FALSE) >>
  /\ fetchPc' = "done"
  /\ last' = Did("fetchData", "called", TRUE, Null)
  /\ UNCHANGED <<env, mounted, formData, rendered, ls, db, inflight, fetched, cycles, interval,
                 timeouts, effectDeps>>

\* The mount effect on the remote strategy, up to its first await.
FetchDataRemote ==
  /\ configured /\ fetchPc = "init"
  /\ queue' = Append(queue, Upd("loading", "set", 0, TRUE))
  /\ fetchPc' = "journalEntries"
  /\ last' = Did("fetchData", "called", TRUE, Null)
  /\ UNCHANGED <<env, mounted, formData, rendered, ls, db, inflight, fetched, cycles, interval,
                 timeouts, effectDeps>>

\* The select fetchData awaits returns got (<<rows>>, or Null when the
\* backend reports an error); after the third the results are stored.
SelectReturns(got) ==
  /\ configured /\ fetchPc \in Keys /\ queue = <<>>
  /\ LET now == [fetched EXCEPT ![fetchPc] = got] IN
     /\ fetched' = now
     /\ queue' = IF fetchPc # "trades" THEN queue
                 ELSE SetLoaded("journalEntries", now["journalEntries"])
                      \o SetLoaded("portfolioItems", now["portfolioItems"])
                      \o SetLoaded("trades", now["trades"])
                      \o <<Upd("loading", "set", 0, FALSE)>>
  /\ fetchPc' = NextKey(fetchPc)
  /\ last' = Did("fetchData", "continued", got # Null, fetchPc)
  /\ UNCHANGED <<env, mounted, formData, rendered, ls, db, inflight, cycles, interval, timeouts,
                 effectDeps>>

SelectSucceeds == \E s \in SelectAll(fetchPc) : SelectReturns(<<s>>)

SelectReportsError == SelectReturns(Null)

\* The select fetchData awaits throws: the catch logs, nothing is stored.
SelectThrows ==
  /\ configured /\ fetchPc \in Keys /\ queue = <<>>
  /\ queue' = Append(queue, Upd("loading", "set", 0, FALSE))
  /\ fetchPc' = "done"
  /\ last' = Did("fetchData", "continued", FALSE, fetchPc)
  /\ UNCHANGED <<env, mounted, formData, rendered, ls, db, inflight, fetched, cycles, interval,
                 timeouts, effectDeps>>

\* ----------------------------------------------------------- portfolio view

\* map[key] in JavaScript: Null (undefined) when the map has no such key.
Lookup(map, key) == IF key \in DOMAIN map THEN Num(map[key]) ELSE Null

\* A valuation that reads the stored price only.
EffectivePriceStored(item, prices) == item.currentPrice

\* livePrice !== undefined ? livePrice : item.currentPrice, with
\* livePrice = livePrices[item.token.toUpperCase()]
EffectivePrice(item, prices) ==
  LET livePrice == Lookup(prices, ToUpperCase(item.token))
  IN  IF livePrice # Null THEN livePrice[1] ELSE item.currentPrice

\* The row stats computes for an item.
StatsRow(item, prices) ==
  LET effectivePrice == EffectivePrice(item, prices)
      value == effectivePrice * item.amount
      invested == item.buyPrice * item.amount
  IN  Spread(item, [effectivePrice |-> effectivePrice,
                    isLive |-> Lookup(prices, ToUpperCase(item.token)) # Null,
                    value |-> value, pnl |-> value - invested, invested |-> invested])

\* ------------------------------------------- a second call in the same task

\* The local branch of a handler that is called once more by the task that
\* called it, before React has rendered: the handler is the one of the same
\* render and reads the same collection.
LocalAgain(key, updated, stored) ==
  /\ ~configured /\ fetchPc = "done"
  /\ queue # <<>>
  /\ queue' = Append(queue, Upd(key, "set", 0, updated))
  /\ ls' = IF stored THEN PersistToLS(key, updated) ELSE ls
  /\ UNCHANGED inflight

AddJournalEntryAgain(entry) ==
  LET newEntry == Spread(entry, [id |-> NewId("journalEntries")]) IN
  /\ last.task = "addJournalEntry" /\ last.phase = "called"
  /\ \E stored \in BOOLEAN :
       /\ LocalAgain("journalEntries", Prepend(newEntry, journalEntries), stored)
       /\ last' = Did("addJournalEntry", "calledAgain", stored, entry)
  /\ UNCHANGED <<env, mounted, formData, rendered, db, fetchVars, cycles, interval, timeouts,
                 effectDeps>>

AddTradeAgain(tradeData) ==
  LET newTrade == NewTrade(tradeData) IN
  /\ last.task = "addTrade" /\ last.phase = "called"
  /\ \E stored \in BOOLEAN :
       /\ LocalAgain("trades", Prepend(newTrade, trades), stored)
       /\ last' = Did("addTrade", "calledAgain", stored, tradeData)
  /\ UNCHANGED <<env, mounted, formData, rendered, db, fetchVars, cycles, interval, timeouts,
                 effectDeps>>

\* ------------------------------------------------------- destructive buttons

\* A declined prompt that goes on to empty the collection of the task.
DeclinedInvokes(task, arg) ==
  /\ queue' = Append(queue, Upd(IF task = "deleteJournalEntry" THEN "journalEntries"
                                ELSE "trades", "set", 0, <<>>))
  /\ last' = Did(task, "declined", FALSE, arg)
  /\ UNCHANGED <<env, mounted, formData, rendered, ls, db, inflight, fetchVars, cycles, interval,
                 timeouts, effectDeps>>

\* confirm(...) returned false: the onClick of the button ends.
Declined(task, arg) ==
  /\ last' = Did(task, "declined", FALSE, arg)
  /\ UNCHANGED <<env, mounted, formData, rendered, queue, ls, db, inflight, fetchVars, cycles,
                 interval, timeouts, effectDeps>>

\* The Remove Entry button of a journal entry on screen; accepted is what
\* the user answers to the prompt.
RemoveEntryButton(id, accepted) ==
  /\ id \in Ids(journalEntries)
  /\ IF accepted THEN DeleteJournalEntry(id) ELSE Declined("deleteJournalEntry", id)

\* The Clear History button, on screen while there are trades.
ClearHistoryButton(accepted) ==
  /\ Len(trades) > 0
  /\ IF accepted THEN ClearTrades ELSE Declined("clearTrades", 0)

\* The Remove Trade button of a trade on screen.
RemoveTradeButton(id, accepted) ==
  /\ id \in Ids(trades)
  /\ IF accepted THEN DeleteTrade(id) ELSE Declined("deleteTrade", id)

\* --------------------------------------------------------------- trade form

\* useState({ ..., direction: Direction.LONG, entryPrice: '', exitPrice: '',
\* status: 'Open', ... }): the fields of the form that decide a status.
EmptyForm == [direction |-> "Long", entryPrice |-> "", exitPrice |-> "", status |-> "Open"]

\* Number(text) for the texts a number input of the form can hold; the
\* empty text converts to 0.
Number(text) ==
  CASE text = "" -> 0
    [] text = "0" -> 0
    [] text = "90" -> 90
    [] text = "100" -> 100
    [] text = "100.0" -> 100
    [] text = "110" -> 110

\* A status rule that reads every trade as a long one.
NewStatusLongOnly(direction, entry, exit) ==
  IF exit > entry THEN "Win" ELSE IF exit < entry THEN "Loss" ELSE "Breakeven"

\* newStatus of handleExitPriceChange once both prices are present.
NewStatus(direction, entry, exit) ==
  IF direction = "Long"
  THEN IF exit > entry THEN "Win" ELSE IF exit < entry THEN "Loss" ELSE "Breakeven"
  ELSE IF exit < entry THEN "Win" ELSE IF exit > entry THEN "Loss" ELSE "Breakeven"

\* What the form's handlers leave alone.
FormFrame ==
  UNCHANGED <<env, mounted, rendered, queue, ls, db, inflight, fetchVars, cycles, interval,
              timeouts, effectDeps>>

\* handleOpenModal: the form is reset.
HandleOpenModal ==
  /\ formData' = EmptyForm
  /\ last' = Did("handleOpenModal", "called", TRUE, Null)
  /\ FormFrame

\* onChange of the status select.
SetStatus(status) ==
  /\ formData' = [formData EXCEPT !.status = status]
  /\ last' = Did("setStatus", "called", TRUE, status)
  /\ FormFrame

\* onChange of the direction select.
SetDirection(direction) ==
  /\ formData' = [formData EXCEPT !.direction = direction]
  /\ last' = Did("setDirection", "called", TRUE, direction)
  /\ FormFrame

\* onChange of the entry price input.
SetEntryPrice(text) ==
  /\ formData' = [formData EXCEPT !.entryPrice = text]
  /\ last' = Did("setEntryPrice", "called", TRUE, text)
  /\ FormFrame

\* onChange of the exit price input.  Both tests are tests of texts: any
\* text but the empty one is truthy, "0" too.
HandleExitPriceChange(price) ==
  /\ formData' =
       [formData EXCEPT
          !.exitPrice = price,
          !.status = IF price # "" /\ formData.entryPrice # ""
                     THEN NewStatus(formData.direction, Number(formData.entryPrice),
                                    Number(price))
                     ELSE @]
  /\ last' = Did("handleExitPriceChange", "called", TRUE, price)
  /\ FormFrame

\* --------------------------------------------------------------------- init

\* The state when the provider is constructed.  held[k] is <<records>> when
\* an earlier session left records of collection k, Null when none did:
\* then localStorage has no text under k, and the backend's table holds the
\* rows of the built-in records.
InitWith(settings, held) ==
  /\ env \in settings
  /\ mounted = TRUE
  /\ formData = EmptyForm
  /\ loading = TRUE
  /\ journalEntries = <<>>
  /\ portfolioItems = <<>>
  /\ trades = <<>>
  /\ livePrices = <<>>
  /\ lastUpdated = 0
  /\ isRefreshing = FALSE
  /\ queue = <<>>
  /\ ls = [k \in Keys |->
             IF configured \/ held[k] = Null THEN Null ELSE <<Stringify(held[k][1])>>]
  /\ db = [k \in Keys |->
             IF ~configured THEN {}
             ELSE IF held[k] = Null THEN Range(Defaults(k)) ELSE Range(held[k][1])]
  /\ inflight = {}
  /\ fetchPc = "init"
  /\ fetched = [k \in Keys |-> Null]
  /\ cycles = {}
  /\ interval = Null
  /\ timeouts = {}
  /\ effectDeps = <<TRUE, 0>>
  /\ last = Did("mount", "rendered", TRUE, Null)
  /\ calls = 0

\* The settings of a deployment: both given, or none.
Deployments ==
  { [VITE_SUPABASE_URL |-> <<"https://db">>, VITE_SUPABASE_ANON_KEY |-> <<"anon">>],
    [VITE_SUPABASE_URL |-> Null, VITE_SUPABASE_ANON_KEY |-> Null] }

InitFrom(held) == InitWith(Deployments, held)

\* The first session.
Init == InitFrom([k \in Keys |-> Null])

\* A call of a handler by the user or a tick of a timer, counted; any other
\* step.
Call(A, max) == calls < max /\ A /\ calls' = calls + 1
Step(A) == A /\ UNCHANGED calls

\* The steps every specification has: the load with selects that succeed,
\* and the renders.
Common ==
  \/ Step(FetchDataLocal)
  \/ Step(FetchDataRemote)
  \/ Step(SelectSucceeds)
  \/ Step(\E w \in WalkChoices(Rendered("portfolioItems", portfolioItems)) \cup {<<>>} :
            Render(w))

\* ------------------------------------------------------------ SpecTrade

EntryPrices == {1, 2}
ExitPrices == {Null, Num(0), Num(2)}
Sizes == {1, 2}
InputStatus == {"Open", "Win"}

TradeData ==
  [direction : Direction, entryPrice : EntryPrices, exitPrice : ExitPrices,
   size : Sizes, status : InputStatus]

TradeFields == {"direction", "entryPrice", "exitPrice", "size", "status"}

\* The updates editTrade is given: one field of the form.
TradeUpdates == {Restrict(t, {f}) : t \in TradeData, f \in TradeFields}

\* The ids a handler may be called with: those on screen, and one that is not.
TradeIds == Ids(trades) \cup {NewId("trades")}

\* In SpecTrade the user adds and edits trades, one call at a time, once the
\* load has finished.
Loaded == fetchPc = "done" /\ ~loading /\ inflight = {}

NextTrade ==
  \/ Common
  \/ Call(Loaded /\ Len(trades) < MaxTrades /\ \E t \in TradeData : AddTrade(t), MaxTradeOps)
  \/ Call(Loaded /\ \E id \in TradeIds, u \in TradeUpdates : EditTrade(id, u), MaxTradeOps)
  \/ Step(\E r \in inflight, ok \in BOOLEAN : BackendHandle(r, ok))
  \/ Step(\E r \in inflight : Reply(r))

SpecTrade == Init /\ [][NextTrade]_vars

\* ------------------------------------------------------------ SpecStore

\* Most calls of handlers explored in one behaviour of SpecStore.
MaxStoreOps == 2

\* What the forms hand to the handlers in SpecStore.
NewEntries ==
  {[date |-> 2, macroReview |-> "M2", altsMarket |-> "A2", summary |-> "S2",
    sentiment |-> "Bullish"]}

NewItems ==
  {[token |-> "ETH", amount |-> 1, buyPrice |-> 1, currentPrice |-> 1,
    category |-> "Liquid", assetType |-> "Crypto"]}

ItemUpdates == {[amount |-> 2]}

NewTrades ==
  {[direction |-> "Short", entryPrice |-> 1, exitPrice |-> Null, size |-> 1,
    status |-> "Open"]}

StoreTradeUpdates == {[status |-> "Loss"]}

\* The ids a handler may be called with: those on screen, and one that is not.
IdsOrFresh(k) == Ids(Coll(k)) \cup {NewId(k)}

\* The load has ended, with or without data.
Ready == fetchPc = "done" /\ ~loading

\* The user calls every handler that changes a collection, at most max
\* times in all, once the load has ended and while earlier requests may
\* still be under way; the load may fail, and so may every request.
StoreSteps(max) ==
  \/ Common
  \/ Step(SelectReportsError)
  \/ Step(SelectThrows)
  \/ Call(Ready /\ \E entry \in NewEntries : AddJournalEntry(entry), max)
  \/ Call(Ready /\ \E id \in IdsOrFresh("journalEntries") : DeleteJournalEntry(id), max)
  \/ Call(Ready /\ \E item \in NewItems : AddPortfolioItem(item), max)
  \/ Call(Ready /\ \E id \in IdsOrFresh("portfolioItems"), u \in ItemUpdates :
            EditPortfolioItem(id, u), max)
  \/ Call(Ready /\ \E id \in IdsOrFresh("portfolioItems") : DeletePortfolioItem(id), max)
  \/ Call(Ready /\ \E t \in NewTrades : AddTrade(t), max)
  \/ Call(Ready /\ \E id \in IdsOrFresh("trades"), u \in StoreTradeUpdates : EditTrade(id, u),
          max)
  \/ Call(Ready /\ \E id \in IdsOrFresh("trades") : DeleteTrade(id), max)
  \/ Call(Ready /\ ClearTrades, max)
  \/ Step(\E r \in inflight, ok \in BOOLEAN : BackendHandle(r, ok))
  \/ Step(\E r \in inflight : Reply(r))
  \/ Step(\E r \in inflight : PortfolioReply(r))

\* In SpecStore the user does so on either strategy.
NextStore == StoreSteps(MaxStoreOps)

SpecStore == Init /\ [][NextStore]_vars

\* ----------------------------------------------------------- SpecConfig

\* What a setting may be: absent, empty, or a text.
SettingValues == {Null, <<"">>, <<"set">>}

Settings == [VITE_SUPABASE_URL : SettingValues, VITE_SUPABASE_ANON_KEY : SettingValues]

\* Most calls of handlers explored in one behaviour of SpecConfig.
MaxConfigOps == 1

\* In SpecConfig the user does the same, whatever the settings are.
NextConfig == StoreSteps(MaxConfigOps)

SpecConfig == InitWith(Settings, [k \in Keys |-> Null]) /\ [][NextConfig]_vars

\* ----------------------------------------------------------- SpecPrices

\* Most calls of portfolio handlers, presses of the refresh button and ticks
\* of the repeating timer explored in one behaviour of SpecPrices.
MaxPriceOps == 1

\* What the portfolio form hands to addPortfolioItem in SpecPrices.
PricedItems ==
  {[token |-> "AAPL", amount |-> 1, buyPrice |-> 1, currentPrice |-> 1,
    category |-> "Liquid", assetType |-> "Stock"]}

\* The portfolio the store holds when SpecPrices starts: a stock, whose
\* row carries its token in lower case, and a coin.
EarlierPortfolio ==
  << [id |-> 1, token |-> "msft", amount |-> 1, buyPrice |-> 1, currentPrice |-> 1,
      category |-> "Liquid", assetType |-> "Stock"],
     [id |-> 2, token |-> "BTC", amount |-> 1, buyPrice |-> 1, currentPrice |-> 1,
      category |-> "Liquid", assetType |-> "Crypto"] >>

InitPrices ==
  InitFrom([k \in Keys |-> IF k = "portfolioItems" THEN <<EarlierPortfolio>> ELSE Null])

\* No refresh cycle awaits the feed, no refresh is scheduled and no request
\* to the backend is under way.
Quiet == Ready /\ cycles = {} /\ timeouts = {} /\ inflight = {}

\* In SpecPrices the user changes the portfolio while the prices are quiet
\* and presses the refresh button at any time, the timers fire, and the
\* feed answers or fails.
NextPrices ==
  \/ Common
  \/ Call(Quiet /\ \E item \in PricedItems : AddPortfolioItem(item), MaxPriceOps)
  \/ Call(Quiet /\ \E id \in Ids(portfolioItems), u \in ItemUpdates :
            EditPortfolioItem(id, u), MaxPriceOps)
  \/ Call(Quiet /\ \E id \in Ids(portfolioItems) : DeletePortfolioItem(id), MaxPriceOps)
  \/ Call(\E w \in WalksAtCall(RefreshPricesNow) : ManualRefresh(w), MaxPriceOps)
  \/ Call(interval # Null /\ \E w \in WalksAtCall(interval[1]) : IntervalTick(w), MaxPriceOps)
  \/ Step(\E c \in timeouts : \E w \in WalksAtCall(c) : TimeoutFires(c, w))
  \/ Step(\E cy \in cycles : \E w \in WalkChoices(cy.c.items) :
            \E data \in FeedData(CryptoTickers(cy.c.items)) : FeedReply(cy, data, w))
  \/ Step(\E cy \in cycles : \E w \in WalkChoices(cy.c.items) : FeedFails(cy, w))
  \/ Step(\E r \in inflight, ok \in BOOLEAN : BackendHandle(r, ok))
  \/ Step(\E r \in inflight : PortfolioReply(r))

SpecPrices == InitPrices /\ [][NextPrices]_vars

\* --------------------------------------------------------- SpecTeardown

\* What goes on without the user once the provider is torn down: pending
\* timeouts fire, the feed and the backend answer, continuations run.
Background ==
  \/ Step(\E c \in timeouts : \E w \in WalksAtCall(c) : TimeoutFires(c, w))
  \/ Step(\E cy \in cycles : \E w \in WalkChoices(cy.c.items) :
            \E data \in FeedData(CryptoTickers(cy.c.items)) : FeedReply(cy, data, w))
  \/ Step(\E cy \in cycles : \E w \in WalkChoices(cy.c.items) : FeedFails(cy, w))
  \/ Step(\E r \in inflight, ok \in BOOLEAN : BackendHandle(r, ok))
  \/ Step(\E r \in inflight : PortfolioReply(r))
  \/ Step(Discard)

\* In SpecTeardown the provider may be torn down at any time after the
\* load.  Until then the user edits an item while the prices are quiet and
\* deletes one at any time, also while a refresh cycle awaits the feed, and
\* the repeating timer fires.
NextTeardown ==
  \/ mounted /\ Common
  \/ mounted /\ Call(Quiet /\ \E id \in Ids(portfolioItems), u \in ItemUpdates :
                        EditPortfolioItem(id, u), MaxPriceOps)
  \/ mounted /\ Call(Ready /\ inflight = {} /\ \E id \in Ids(portfolioItems) :
                        DeletePortfolioItem(id), MaxPriceOps)
  \/ mounted /\ Call(interval # Null /\ \E w \in WalksAtCall(interval[1]) : IntervalTick(w),
                     MaxPriceOps)
  \/ Step(Unmount)
  \/ Background

SpecTeardown == InitPrices /\ [][NextTeardown]_vars

\* ------------------------------------------------------------- SpecForm

\* What the user may type into a price input of the trade form.
PriceTexts == {"", "0", "90", "100", "100.0", "110"}

\* In SpecForm the user fills in the trade form in any order.
NextForm ==
  \/ Step(HandleOpenModal)
  \/ Step(\E status \in TradeStatus : SetStatus(status))
  \/ Step(\E direction \in Direction : SetDirection(direction))
  \/ Step(\E text \in PriceTexts : SetEntryPrice(text))
  \/ Step(\E price \in PriceTexts : HandleExitPriceChange(price))

SpecForm == Init /\ [][NextForm]_vars

\* ------------------------------------------------------------ SpecMerge

\* The tickers of the portfolios SpecMerge starts from.
MergeTokens == {"BTC", "ETH"}

\* The portfolios the store holds when SpecMerge starts: a coin and a
\* stock, whose tickers may be the same.
MergePortfolios ==
  { << [id |-> 1, token |-> coin, amount |-> 1, buyPrice |-> 1, currentPrice |-> 1,
        category |-> "Liquid", assetType |-> "Crypto"],
       [id |-> 2, token |-> stock, amount |-> 1, buyPrice |-> 1, currentPrice |-> 1,
        category |-> "Liquid", assetType |-> "Stock"] >> :
      coin \in MergeTokens, stock \in MergeTokens }

InitMerge ==
  \E held \in MergePortfolios :
    InitFrom([k \in Keys |-> IF k = "portfolioItems" THEN <<held>> ELSE Null])

\* In SpecMerge the portfolio is loaded and refreshed, by the polling effect
\* and by the refresh button.
NextMerge ==
  \/ Common
  \/ Call(\E w \in WalksAtCall(RefreshPricesNow) : ManualRefresh(w), MaxPriceOps)
  \/ Step(\E cy \in cycles : \E w \in WalkChoices(cy.c.items) :
            \E data \in FeedData(CryptoTickers(cy.c.items)) : FeedReply(cy, data, w))
  \/ Step(\E cy \in cycles : \E w \in WalkChoices(cy.c.items) : FeedFails(cy, w))

SpecMerge == InitMerge /\ [][NextMerge]_vars

\* ---------------------------------------------------------- SpecConfirm

\* Most presses of the destructive buttons explored in one behaviour of
\* SpecConfirm.
MaxClicks == 2

\* In SpecConfirm the user presses the destructive buttons of the views and
\* answers their prompts either way.
NextConfirm ==
  \/ Common
  \/ Call(\E id \in Ids(journalEntries), accepted \in BOOLEAN :
            RemoveEntryButton(id, accepted), MaxClicks)
  \/ Call(\E accepted \in BOOLEAN : ClearHistoryButton(accepted), MaxClicks)
  \/ Call(\E id \in Ids(trades), accepted \in BOOLEAN : RemoveTradeButton(id, accepted),
          MaxClicks)
  \/ Step(\E r \in inflight, ok \in BOOLEAN : BackendHandle(r, ok))
  \/ Step(\E r \in inflight : Reply(r))

SpecConfirm == Init /\ [][NextConfirm]_vars

\* ------------------------------------------------------------ SpecEdits

\* Most calls of editTrade explored in one behaviour of SpecEdits.
MaxEdits == 2

\* What the trade form hands to editTrade in SpecEdits: edits of different
\* fields.
ConcurrentUpdates == {[size |-> 2], [direction |-> "Short"]}

\* In SpecEdits the user edits the trades on screen, also while an earlier
\* edit is under way.
NextEdits ==
  \/ Common
  \/ Call(Ready /\ \E id \in Ids(trades), u \in ConcurrentUpdates : EditTrade(id, u), MaxEdits)
  \/ Step(\E r \in inflight, ok \in BOOLEAN : BackendHandle(r, ok))
  \/ Step(\E r \in inflight : Reply(r))

SpecEdits == Init /\ [][NextEdits]_vars

\* ------------------------------------------------------------- SpecLoad

\* Most calls of addJournalEntry explored in one behaviour of SpecLoad.
MaxEarlyAdds == 2

\* In SpecLoad the user adds journal entries from the moment the views are
\* on screen, which is before the load has ended.
NextLoad ==
  \/ Common
  \/ Call(\E entry \in NewEntries : AddJournalEntry(entry), MaxEarlyAdds)
  \/ Step(\E r \in inflight, ok \in BOOLEAN : BackendHandle(r, ok))
  \/ Step(\E r \in inflight : Reply(r))

SpecLoad == Init /\ [][NextLoad]_vars

\* ------------------------------------------------------------ SpecTwice

\* Most tasks that add records explored in one behaviour of SpecTwice.
MaxAddTasks == 2

\* In SpecTwice a task adds one record, or on the local strategy two of a
\* kind before React renders.
NextTwice ==
  \/ Common
  \/ Call(Ready /\ \E entry \in NewEntries : AddJournalEntry(entry), MaxAddTasks)
  \/ Call(Ready /\ \E t \in NewTrades : AddTrade(t), MaxAddTasks)
  \/ Step(\E entry \in NewEntries : AddJournalEntryAgain(entry))
  \/ Step(\E t \in NewTrades : AddTradeAgain(t))
  \/ Step(\E r \in inflight, ok \in BOOLEAN : BackendHandle(r, ok))
  \/ Step(\E r \in inflight : Reply(r))

SpecTwice == Init /\ [][NextTwice]_vars

\* ---------------------------------------------------------- SpecRetoken

\* Most calls of editPortfolioItem explored in one behaviour of SpecRetoken.
MaxRetokens == 1

\* Most refresh cycles that complete before the first edit of a behaviour
\* of SpecRetoken, and between an edit and the next: the repeating timer
\* is followed up to then.
MaxStamps == 3

\* What the portfolio form hands to editPortfolioItem in SpecRetoken: the
\* coin becomes another coin.
Retokens == {[token |-> "ETH"]}

\* In SpecRetoken the built-in portfolio, one coin, is loaded, the user
\* changes the coin's token while the prices are quiet, and then only the
\* timers, the feed and the backend act.
NextRetoken ==
  \/ Common
  \/ Call(Quiet /\ \E id \in Ids(portfolioItems), u \in Retokens : EditPortfolioItem(id, u),
          MaxRetokens)
  \/ Step(interval # Null /\ cycles = {}
            /\ Rendered("lastUpdated", lastUpdated) < MaxStamps * (calls + 1)
            /\ \E w \in WalksAtCall(interval[1]) : IntervalTick(w))
  \/ Step(\E c \in timeouts : \E w \in WalksAtCall(c) : TimeoutFires(c, w))
  \/ Step(\E cy \in cycles : \E w \in WalkChoices(cy.c.items) :
            \E data \in FeedData(CryptoTickers(cy.c.items)) : FeedReply(cy, data, w))
  \/ Step(\E cy \in cycles : \E w \in WalkChoices(cy.c.items) : FeedFails(cy, w))
  \/ Step(\E r \in inflight, ok \in BOOLEAN : BackendHandle(r, ok))
  \/ Step(\E r \in inflight : PortfolioReply(r))

\* The event loop runs every task that is ready, and the timers fire.
SpecRetoken == Init /\ [][NextRetoken]_vars /\ WF_vars(NextRetoken)

\* ------------------------------------------------------------ SpecTimer

\* Most calls of portfolio handlers explored in one behaviour of SpecTimer.
MaxPortfolioOps == 2

\* In SpecTimer the built-in portfolio, one coin, is loaded, and the user
\* adds, edits and deletes items while the prices are quiet; the timers
\* fire, and the feed and the backend answer.
NextTimer ==
  \/ Common
  \/ Call(Quiet /\ \E item \in PricedItems : AddPortfolioItem(item), MaxPortfolioOps)
  \/ Call(Quiet /\ \E id \in Ids(portfolioItems), u \in ItemUpdates :
            EditPortfolioItem(id, u), MaxPortfolioOps)
  \/ Call(Quiet /\ \E id \in Ids(portfolioItems) : DeletePortfolioItem(id), MaxPortfolioOps)
  \/ Call(interval # Null /\ cycles = {} /\ \E w \in WalksAtCall(interval[1]) : IntervalTick(w),
          MaxPortfolioOps)
  \/ Step(\E c \in timeouts : \E w \in WalksAtCall(c) : TimeoutFires(c, w))
  \/ Step(\E cy \in cycles : \E w \in WalkChoices(cy.c.items) :
            \E data \in FeedData(CryptoTickers(cy.c.items)) : FeedReply(cy, data, w))
  \/ Step(\E cy \in cycles : \E w \in WalkChoices(cy.c.items) : FeedFails(cy, w))
  \/ Step(\E r \in inflight, ok \in BOOLEAN : BackendHandle(r, ok))
  \/ Step(\E r \in inflight : PortfolioReply(r))

SpecTimer == Init /\ [][NextTimer]_vars

\* ------------------------------------------------------------------- claims

\* The value of the documented formula for trade t.
Formula(t) == ComputePnl(t.direction, t.entryPrice, t.exitPrice[1], t.size)

\* C1 as the specification states it: every trade whose status is not Open
\* and whose exit price is present carries the pnl
\* ((exit - entry) / entry) * size for Long and ((entry - exit) / entry) * size
\* for Short.
C1_PnlIsFormulaWhenClosedWithExit ==
  \A t \in {x \in Range(trades) : x.status # "Open" /\ x.exitPrice # Null} :
    t.pnl = Formula(t)

\* C1 as the code has it: the formula's value is stored for every trade
\* added or edited last whose status is not Open and whose exit price is a
\* number other than zero.
C1_PnlIsFormulaWhenExitNonzero ==
  (last.task \in {"addTrade", "editTrade"} /\ last.phase = "rendered" /\ last.ok) =>
    \A t \in {x \in Range(trades) : x.status # "Open" /\ Truthy(x.exitPrice)} :
      t.pnl = Formula(t)

\* A closed Short trade edited to a size of 2 carries the formula's value.
C1_Witness ==
  /\ last.task = "editTrade" /\ last.phase = "rendered" /\ last.ok
  /\ \E t \in {x \in Range(trades) : x.id = last.arg} :
       /\ t.status = "Win" /\ t.direction = "Short" /\ t.size = 2
       /\ t.entryPrice = 1 /\ t.exitPrice = Num(2)
       /\ t.pnl = <<-2, 1>>

\* C2 as the specification states it: a trade carries a pnl exactly when
\* its status is not Open and its exit price is present.
C2_PnlPresentIffClosedWithExit ==
  \A t \in Range(trades) :
    t.pnl # Null <=> (t.status # "Open" /\ t.exitPrice # Null)

\* C3: a trade whose status is Open carries no pnl, on screen and in the
\* updates queued for the next render.
C3_OpenHasNoPnl ==
  \A s \in {trades, Rendered("trades", trades)} :
    \A i \in 1..Len(s) : s[i].status = "Open" => s[i].pnl = Null

\* The built-in closed trade, which carried a pnl, after the one edit that
\* set its status to Open.
C3_Witness ==
  /\ calls = 1 /\ last.task = "editTrade" /\ last.phase = "rendered" /\ last.ok
  /\ \E t \in {x \in Range(trades) : x.id = TRADES[1].id} :
       t.status = "Open" /\ t.exitPrice = TRADES[1].exitPrice /\ t.pnl = Null

\* The handlers that change collection k.
TasksOf(k) ==
  CASE k = "journalEntries" -> {"addJournalEntry", "deleteJournalEntry"}
    [] k = "portfolioItems" -> {"addPortfolioItem", "editPortfolioItem", "deletePortfolioItem"}
    [] k = "trades" -> {"addTrade", "editTrade", "deleteTrade", "clearTrades"}

MutationTasks == UNION {TasksOf(k) : k \in Keys}

\* C4: on the remote strategy, the step in which a handler learns that the
\* backend reported an error leaves every collection as it was, and queues
\* nothing that would change one at the next render.
C4_ErrorLeavesCollections ==
  [][(last'.task \in MutationTasks /\ last'.phase = "continued" /\ ~last'.ok) =>
       \A k \in Keys : Coll(k)' = Coll(k) /\ Rendered(k, Coll(k))' = Coll(k)]_vars

\* clearTrades has learnt of the backend's error: the trades are still held.
C4_Witness ==
  /\ configured /\ last.task = "clearTrades" /\ last.phase = "continued" /\ ~last.ok
  /\ trades = TRADES /\ queue = <<>>

\* C5 as the specification states it: on the local strategy, whenever a
\* handler's change of a collection becomes the in-memory value, the text
\* stored under the collection's key is already that of the new value.
C5_StoredBeforeCached ==
  [][\A k \in Keys :
       (~configured /\ last.task \in TasksOf(k) /\ Coll(k)' # Coll(k)) =>
         ls[k] = <<Stringify(Coll(k)')>>]_vars

\* C5 as the code has it: the same, for the handlers whose
\* localStorage.setItem did not throw.
C5_StoredBeforeCachedUnlessThrown ==
  [][\A k \in Keys :
       (~configured /\ last.task \in TasksOf(k) /\ last.ok /\ Coll(k)' # Coll(k)) =>
         ls[k] = <<Stringify(Coll(k)')>>]_vars

\* Between addJournalEntry and the next render: the new collection is
\* stored, the in-memory one is still the old.
C5_Witness ==
  /\ ~configured /\ last.task = "addJournalEntry" /\ last.phase = "called" /\ last.ok
  /\ journalEntries = JOURNAL_ENTRIES
  /\ Len(Rendered("journalEntries", journalEntries)) = Len(journalEntries) + 1
  /\ ls["journalEntries"] = <<Stringify(Rendered("journalEntries", journalEntries))>>

\* C6: on the local strategy, once a handler that changed collection k has
\* returned and its change is rendered, the text stored under k is the
\* serialization of the whole in-memory collection.
C6_StoredIsWholeCollection ==
  \A k \in Keys :
    (~configured /\ last.task \in TasksOf(k) /\ last.phase = "rendered" /\ last.ok) =>
      ls[k] = <<Stringify(Coll(k))>>

\* editPortfolioItem has changed the amount of the one item of two it was
\* called for, and both items are stored.
C6_Witness ==
  /\ ~configured /\ last.task = "editPortfolioItem" /\ last.phase = "rendered" /\ last.ok
  /\ Len(portfolioItems) = 2
  /\ \E i, j \in 1..2 : portfolioItems[i].amount = 2 /\ portfolioItems[j].amount = 1
  /\ ls["portfolioItems"] = <<Stringify(portfolioItems)>>

\* The fields addJournalEntry is called with.
EntryFields == {"date", "macroReview", "altsMarket", "summary", "sentiment"}

\* The step after addJournalEntry in which its change is rendered: on the
\* local strategy the render after the call, on the remote strategy the
\* render after the continuation of a successful insert.
AddJournalEntryRendered(entry) ==
  /\ last.task = "addJournalEntry" /\ last'.phase = "rendered"
  /\ \/ ~configured /\ last.phase = "called" /\ last.arg = entry
     \/ configured /\ last.phase = "continued" /\ last.ok
        /\ Restrict(last.arg, EntryFields) = entry

\* C7: when a successful addJournalEntry is rendered, the journal is a
\* record with exactly the fields given and an id no earlier entry has,
\* followed by the earlier entries in their order.
C7_AddJournalEntryPrepends ==
  [][\A entry \in NewEntries :
       AddJournalEntryRendered(entry) =>
         /\ Len(journalEntries') = Len(journalEntries) + 1
         /\ Restrict(journalEntries'[1], EntryFields) = entry
         /\ DOMAIN journalEntries'[1] = EntryFields \cup {"id"}
         /\ journalEntries'[1].id \notin Ids(journalEntries)
         /\ Tail(journalEntries') = journalEntries]_vars

\* The journal after an addJournalEntry on top of the built-in entry.
C7_Witness ==
  /\ last.task = "addJournalEntry" /\ last.phase = "rendered" /\ calls = 1
  /\ Len(journalEntries) = 2
  /\ journalEntries[2] = JOURNAL_ENTRIES[1]
  /\ Restrict(journalEntries[1], EntryFields) \in NewEntries

\* The step in which clearTrades is rendered: on the local strategy the
\* render after the call, on the remote strategy the render after the
\* continuation of a successful delete.
ClearTradesRendered ==
  /\ last.task = "clearTrades" /\ last'.phase = "rendered"
  /\ \/ ~configured /\ last.phase = "called"
     \/ configured /\ last.phase = "continued" /\ last.ok

\* C9: the call of clearTrades, its continuation and its render leave the
\* journal, the portfolio and the texts stored for them as they were, and
\* the render leaves no trade.
C9_ClearTradesFrame ==
  [][(last'.task = "clearTrades" /\ (last'.phase \in {"called", "continued"}
                                       \/ ClearTradesRendered)) =>
       /\ journalEntries' = journalEntries
       /\ portfolioItems' = portfolioItems
       /\ ls'["journalEntries"] = ls["journalEntries"]
       /\ ls'["portfolioItems"] = ls["portfolioItems"]
       /\ ClearTradesRendered => trades' = <<>>]_vars

\* clearTrades, called second on a collection that held trades, is
\* rendered: no trade is left, the journal and the portfolio are.
C9_Witness ==
  /\ last.task = "clearTrades" /\ last.phase = "rendered" /\ calls = 2
  /\ trades = <<>> /\ db["trades"] = {}
  /\ journalEntries # <<>> /\ portfolioItems # <<>>
  /\ configured \/ ls["trades"] = <<Stringify(<<>>)>>

\* The step in which a deletePortfolioItem(id) is rendered, id being
\* last.arg: on the local strategy the render after the call, on the remote
\* strategy the render after the continuation of a successful delete.
DeleteItemRendered ==
  /\ last.task = "deletePortfolioItem" /\ last'.phase = "rendered"
  /\ \/ ~configured /\ last.phase = "called"
     \/ configured /\ last.phase = "continued" /\ last.ok

\* s without its record of the given id, the others as they were.
Without(s, id) ==
  IF id \notin Ids(s) THEN s
  ELSE LET i == CHOOSE j \in 1..Len(s) : s[j].id = id
       IN  SubSeq(s, 1, i - 1) \o SubSeq(s, i + 1, Len(s))

\* A change of the live-price map is queued.
PricesQueued == \E i \in 1..Len(queue) : queue[i].var = "livePrices"

\* C8 as the specification states it: rendering a deletePortfolioItem
\* removes the item and causes no change of the live-price map: the map
\* stays, no change of it is queued and no refreshPrices cycle is started.
C8_DeleteCausesNoPriceChange ==
  [][DeleteItemRendered =>
       /\ portfolioItems' = Without(portfolioItems, last.arg)
       /\ livePrices' = livePrices
       /\ ~PricesQueued'
       /\ cycles' = cycles]_vars

\* C8 as the code has it: the call of deletePortfolioItem(id), its
\* continuation and its render leave the live-price map as it was, the key
\* of the deleted item included; the render removes exactly the item with
\* that id; and when the item was held and others remain, the render
\* re-runs the polling effect, which starts a refreshPrices cycle.
C8_DeleteRemovesItemAndRestartsPolling ==
  [][/\ (last'.task = "deletePortfolioItem" /\ last'.phase \in {"called", "continued"}) =>
          livePrices' = livePrices /\ portfolioItems' = portfolioItems
     /\ DeleteItemRendered =>
          /\ portfolioItems' = Without(portfolioItems, last.arg)
          /\ livePrices' = livePrices
          /\ last'.effect = (last.arg \in Ids(portfolioItems) /\ Len(portfolioItems') > 0)
          /\ last'.effect =>
               \/ PricesQueued'
               \/ \E cy \in cycles' \ cycles : cy.by = "effect"]_vars

\* The coin of the earlier session's portfolio has been deleted after its
\* price was fetched: the stock is left, the coin's price is still in the
\* map, and the polling effect has started a cycle that queued new prices.
C8_Witness ==
  /\ last.task = "deletePortfolioItem" /\ last.phase = "rendered" /\ last.effect
  /\ portfolioItems = <<EarlierPortfolio[1]>>
  /\ "BTC" \in DOMAIN livePrices
  /\ PricesQueued

\* C10 as the specification states it: when the result of a refreshPrices
\* cycle is rendered, every key of the live-price map that the cycle did
\* not fetch or synthesize is still in the map with its value.
C10_CycleKeepsOtherKeys ==
  [][last.wrote # Null =>
       \A t \in DOMAIN livePrices \ last.wrote[1] :
         t \in DOMAIN livePrices' /\ livePrices'[t] = livePrices[t]]_vars

\* Cycle cy completes in this step: it was awaiting the feed and is not any more.
Completes(cy) ==
  /\ cy \in cycles
  /\ ~\E x \in cycles' : x.c = cy.c /\ x.by = cy.by /\ x.n = cy.n

\* The live-price map once the updates queued so far are rendered.
PricesAfter == Rendered("livePrices", livePrices)

\* C11 as the specification states it: when the crypto batch of a cycle
\* fails, refreshPrices still runs to its end (it records its merge and
\* ends the refresh), and in the map after the cycle every crypto ticker of
\* the batch that had a price in the map before the cycle has that price.
C11_FailedBatchKeepsCryptoPrices ==
  [][\A cy \in cycles :
       (Completes(cy) /\ last'.task = "refreshPrices" /\ ~last'.ok) =>
         /\ PricesQueued' /\ Rendered("isRefreshing", isRefreshing)' = FALSE
         /\ \A t \in CryptoTickers(cy.c.items) \cap DOMAIN cy.before :
              t \in DOMAIN PricesAfter' /\ PricesAfter'[t] = cy.before[t]]_vars

\* C11 as the code has it: the same, for the prices of the map that the
\* cycle's refreshPrices was created with, which is the map of an earlier
\* render when a timer called it.
C11_FailedBatchKeepsCapturedPrices ==
  [][\A cy \in cycles :
       (Completes(cy) /\ last'.task = "refreshPrices" /\ ~last'.ok) =>
         /\ PricesQueued' /\ Rendered("isRefreshing", isRefreshing)' = FALSE
         /\ \A t \in CryptoTickers(cy.c.items) \cap DOMAIN cy.c.prices :
              t \in DOMAIN PricesAfter' /\ PricesAfter'[t] = cy.c.prices[t]]_vars

\* The batch of a cycle started by the refresh button has failed after an
\* earlier cycle fetched the coin's price: the price is kept.
C11_Witness ==
  /\ last.task = "refreshPrices" /\ last.phase = "continued" /\ ~last.ok
  /\ last.arg = "manual"
  /\ "BTC" \in DOMAIN livePrices /\ "BTC" \in DOMAIN PricesAfter
  /\ PricesAfter["BTC"] = livePrices["BTC"]

\* The fields of a portfolio item.
ItemFields == {"id", "token", "amount", "buyPrice", "currentPrice", "category", "assetType"}

\* The row of the portfolio view for every one of the items carries the
\* item's own fields, and as its price the map's value under the item's
\* uppercased token when the map has that key and the item's currentPrice
\* otherwise.
ValuedFromMap(items, prices) ==
  \A i \in 1..Len(items) :
    LET key == ToUpperCase(items[i].token)
        row == StatsRow(items[i], prices)
    IN  /\ Restrict(row, ItemFields) = items[i]
        /\ row.isLive = (key \in DOMAIN prices)
        /\ row.effectivePrice =
             IF key \in DOMAIN prices THEN prices[key] ELSE items[i].currentPrice

\* C12: in every render the valuation price of every item is the map's
\* value under the item's uppercased token when that key is present and the
\* item's currentPrice otherwise; and no step of a refreshPrices cycle,
\* its render included, changes an item on screen, in localStorage or in
\* the backend's table: the price is read from the map, never written to
\* the item.
C12_ValuationReadsMap ==
  [][/\ ValuedFromMap(portfolioItems', livePrices')
     /\ last'.task = "refreshPrices" =>
          portfolioItems' = portfolioItems /\ ls' = ls /\ db' = db]_vars

\* The coin is valued at its fetched price, which differs from its stored
\* one; the stock, whose synthetic price is kept under its token as
\* stored, in lower case, is valued at its stored price.
C12_Witness ==
  /\ last.task = "refreshPrices" /\ last.phase = "rendered"
  /\ portfolioItems = EarlierPortfolio
  /\ livePrices = [t \in {"BTC", "msft"} |-> 2]
  /\ \E i \in 1..2 :
       LET r == StatsRow(portfolioItems[i], livePrices) IN
       r.token = "BTC" /\ r.currentPrice = 1 /\ r.effectivePrice = 2 /\ r.isLive
  /\ \E i \in 1..2 :
       LET r == StatsRow(portfolioItems[i], livePrices) IN
       r.token = "msft" /\ r.effectivePrice = 1 /\ ~r.isLive

\* Both settings are present and not empty.
BothSet ==
  /\ env.VITE_SUPABASE_URL \notin {Null, <<"">>}
  /\ env.VITE_SUPABASE_ANON_KEY \notin {Null, <<"">>}

\* editTrade was called in this step for a trade that is not held: it
\* returns at once.
EditOfNoTrade == last'.task = "editTrade" /\ last'.arg \notin Ids(trades)

\* C13: the settings never change.  When both are present and not empty,
\* no step writes localStorage, the load awaits the backend's selects and
\* every call of a handler that changes a collection sends a request to
\* the backend.  Otherwise no step sends a request, awaits a select or
\* changes a table, the load reads localStorage, and every such call sets
\* the collection at once and, unless localStorage throws, stores it.
C13_OneStrategy ==
  [][/\ env' = env
     /\ BothSet =>
          /\ ls' = ls
          /\ (last'.task = "fetchData" /\ last'.phase = "called") =>
               fetchPc' = "journalEntries"
          /\ \A k \in Keys :
               (last'.task \in TasksOf(k) /\ last'.phase = "called" /\ ~EditOfNoTrade) =>
                 /\ queue' = queue
                 /\ \E r \in inflight' : r.task = last'.task /\ r.stage = "sent"
     /\ ~BothSet =>
          /\ db' = db /\ inflight' = {} /\ fetchPc' \notin Keys
          /\ (last'.task = "fetchData" /\ last'.phase = "called") =>
               /\ fetchPc' = "done"
               /\ \A k \in Keys : Rendered(k, Coll(k))' = LoadLocal(k)
          /\ \A k \in Keys :
               (last'.task \in TasksOf(k) /\ last'.phase = "called" /\ ~EditOfNoTrade) =>
                 /\ Len(queue') = Len(queue) + 1
                 /\ last'.ok => ls'[k] = <<Stringify(Rendered(k, Coll(k))')>>]_vars

\* With an empty URL and a key, a trade was added on the local strategy.
C13_Witness ==
  /\ env.VITE_SUPABASE_URL = <<"">> /\ env.VITE_SUPABASE_ANON_KEY = <<"set">>
  /\ last.task = "addTrade" /\ last.phase = "rendered" /\ last.ok
  /\ Len(trades) = 2 /\ ls["trades"] = <<Stringify(trades)>>
  /\ db["trades"] = {} /\ inflight = {}

\* C14: on the local strategy fetchData is called once, in the first step
\* of the provider, and runs to its end without awaiting; the render that
\* follows makes every collection the deserialized text stored under its
\* key when there is one and the built-in records when there is none, and
\* makes loading false; no later step is a call of fetchData.
C14_LocalLoad ==
  [][~configured =>
       /\ (last'.task = "fetchData" /\ last'.phase = "called") =>
            fetchPc = "init" /\ fetchPc' = "done" /\ last.task = "mount"
       /\ (last.task = "fetchData" /\ last.phase = "called"
             /\ last'.phase = "rendered") =>
            /\ loading /\ ~loading'
            /\ \A k \in Keys :
                 Coll(k)' = IF ls[k] # Null THEN Parse(ls[k][1]) ELSE Defaults(k)]_vars

\* The local load is rendered: the portfolio is the stored one, which is
\* not the built-in one, and the journal and the trades, for which nothing
\* is stored, are the built-in records.
C14_Witness ==
  /\ ~configured /\ last.task = "fetchData" /\ last.phase = "rendered"
  /\ ~loading /\ fetchPc = "done"
  /\ ls["portfolioItems"] # Null /\ ls["journalEntries"] = Null /\ ls["trades"] = Null
  /\ portfolioItems = EarlierPortfolio /\ portfolioItems # PORTFOLIO_ITEMS
  /\ journalEntries = JOURNAL_ENTRIES /\ trades = TRADES

\* This step is a render.
RenderStep == queue # <<>> /\ queue' # queue /\ last'.phase = "rendered"

\* This step is a call of refreshPrices by the given caller.
RefreshCalledBy(by) ==
  last'.task = "refreshPrices" /\ last'.phase = "called" /\ last'.arg = by

\* The cycles that start awaiting the feed in this step.
StartedCycles ==
  {x \in cycles' : ~\E y \in cycles : y.c = x.c /\ y.by = x.by /\ y.n = x.n}

PortfolioSetters == {"addPortfolioItem", "editPortfolioItem"}

\* C15 as the specification states it: the polling effect starts a refresh
\* only in a render before which the collection on screen was empty (the
\* collection first becomes non-empty), and a refresh is scheduled only by
\* addPortfolioItem and editPortfolioItem.
C15_StartsOnlyWhenFirstNonEmpty ==
  [][/\ (RenderStep /\ last'.effect) => Len(portfolioItems) = 0
     /\ timeouts' \ timeouts # {} => last'.task \in PortfolioSetters]_vars

\* C15 as the code has it.  (a) A render starts a refresh exactly when it
\* changes loading or the length of the collection and leaves loading
\* false and the collection non-empty: after the load, after every add and
\* after every deletion that leaves items; it then calls this render's
\* refreshPrices and sets the repeating timer anew with it.  (b) A tick
\* of the repeating timer calls refreshPrices and leaves the timer set.
\* (c) addPortfolioItem and editPortfolioItem schedule one refresh: on the
\* local strategy in the call, unless localStorage threw, on the remote
\* one after the backend's answer, whatever it was; a scheduled refresh
\* runs once.  Nothing else but the refresh button starts a refresh.
C15_AutomaticStarts ==
  [][/\ RenderStep =>
          /\ last'.effect =
               /\ <<loading', Len(portfolioItems')>> # <<loading, Len(portfolioItems)>>
               /\ ~loading' /\ Len(portfolioItems') > 0
          /\ last'.effect =>
               /\ interval' = <<[items |-> portfolioItems', prices |-> livePrices']>>
               /\ PricesQueued' \/ \E cy \in StartedCycles : cy.by = "effect"
          /\ ~last'.effect => StartedCycles = {} /\ ~PricesQueued'
     /\ RefreshCalledBy("interval") => interval # Null /\ interval' = interval
     /\ RefreshCalledBy("timeout") => Cardinality(timeouts \ timeouts') = 1
     /\ (last'.task \in PortfolioSetters /\ last'.phase = "called" /\ ~configured) =>
          timeouts' = IF last'.ok THEN timeouts \cup {RefreshPricesNow} ELSE timeouts
     /\ (last'.task \in PortfolioSetters /\ last'.phase = "continued") =>
          timeouts \subseteq timeouts' /\ Cardinality(timeouts' \ timeouts) = 1
     /\ timeouts' \ timeouts # {} =>
          /\ last'.task \in PortfolioSetters
          /\ last'.phase = IF configured THEN "continued" ELSE "called"
     /\ (StartedCycles # {} \/ (PricesQueued' /\ ~PricesQueued)) =>
          \/ RenderStep /\ last'.effect
          \/ last'.task = "refreshPrices" /\ last'.phase = "continued"
               /\ StartedCycles = {}
          \/ \E by \in {"interval", "timeout", "manual"} : RefreshCalledBy(by)]_vars

\* An item was added to a portfolio of two: its render has started a
\* refresh and set the timer anew, and the scheduled refresh is pending.
C15_Witness ==
  /\ last.task = "addPortfolioItem" /\ last.phase = "rendered" /\ last.effect
  /\ Len(portfolioItems) = 3
  /\ interval = <<RefreshPricesNow>>
  /\ timeouts # {} /\ \A c \in timeouts : Len(c.items) = 2
  /\ \E cy \in cycles : cy.by = "effect"

\* C16 as the specification states it: when a cycle completes during whose
\* await another cycle completed, no other cycle is removed, and the map
\* after its merge has a value for every key fetched or synthesized by
\* either of them.
C16_OverlappingCyclesKeepAllKeys ==
  [][\A cy \in cycles :
       (Completes(cy) /\ cy.met # {}) =>
         /\ Cardinality(cycles') = Cardinality(cycles) - 1
         /\ \A t \in cy.met \cup last'.wrote[1] : t \in DOMAIN PricesAfter']_vars

C18_HungCycleKeepsRefreshing ==
  cycles # {} => Rendered("isRefreshing", isRefreshing)

\* The backend carries out request r in this step.
CarriedOut(r) ==
  /\ r \in inflight /\ r.stage = "sent"
  /\ [r EXCEPT !.stage = "ok"] \in inflight'

\* C19: a teardown, and a cleanup of the polling effect in a render,
\* cancel the repeating timer and nothing else: the cycles awaiting the
\* feed, the requests under way and the scheduled refreshes stay as they
\* are.  After a teardown the timer stays cancelled and starts no refresh.
\* After a cleanup the only timer is the one the same render set.  A cycle
\* leaves the awaiting ones only by running to its end, where it hands its
\* merged map to setLivePrices, and a request is carried out by the backend
\* as sent, before the teardown or after.
C19_TeardownCancelsOnlyTimer ==
  [][/\ (mounted /\ ~mounted') =>
          /\ interval' = Null
          /\ cycles' = cycles /\ inflight' = inflight /\ timeouts' = timeouts
          /\ queue' = queue /\ db' = db /\ ls' = ls
     /\ ~mounted => (interval' = Null /\ ~RefreshCalledBy("interval"))
     /\ (RenderStep /\ effectDeps' # effectDeps) =>
          /\ interval' \in {Null, <<[items |-> portfolioItems', prices |-> livePrices']>>}
          /\ \A cy \in cycles : ~Completes(cy)
          /\ inflight' = inflight /\ timeouts' = timeouts
     /\ \A cy \in cycles :
          Completes(cy) =>
            /\ last'.task = "refreshPrices" /\ last'.phase = "continued"
            /\ last'.wrote # Null
            /\ PricesQueued'
     /\ \A r \in inflight :
          (r.stage = "sent" /\ r \notin inflight') =>
            /\ last'.phase = "handled"
            /\ CarriedOut(r) => db' = [db EXCEPT ![r.coll] = TableAfter(db[r.coll], r)]]_vars

\* The provider was torn down while a cycle awaited the feed; the timer is
\* cancelled, and the cycle has now run to its end and called setLivePrices.
C19_Witness ==
  /\ ~mounted
  /\ interval = Null
  /\ last.task = "refreshPrices" /\ last.phase = "continued" /\ last.arg = "effect"
  /\ PricesQueued

C21_MergeOrderIrrelevant ==
  \A cy \in cycles :
    \A data \in FeedData(CryptoTickers(cy.c.items)), w \in WalkChoices(cy.c.items) :
      LET stockItems == StockItems(cy.c.items)
          cryptoFirst == Synthesize(stockItems, Spread(cy.c.prices, data), w)
          syntheticFirst == Spread(Synthesize(stockItems, cy.c.prices, w), data)
      IN  /\ cryptoFirst = syntheticFirst
          /\ cryptoFirst = NewPrices(cy.c, data, w)
          /\ \A t \in DOMAIN cy.c.prices \ WrittenKeys(cy.c, data) :
               t \in DOMAIN cryptoFirst /\ cryptoFirst[t] = cy.c.prices[t]

DestructiveTasks == {"deleteJournalEntry", "deleteTrade", "clearTrades"}

\* C22: every press of a destructive button of the views ends either with
\* the prompt declined, and then no collection on screen or queued, no
\* stored text, no table and no request changes, or with the call of the
\* button's own handler, made after the prompt was accepted; the views call
\* deleteJournalEntry, deleteTrade and clearTrades nowhere else.
C22_DestructiveAfterConfirmation ==
  [][/\ last'.phase = "declined" =>
          /\ last'.task \in DestructiveTasks
          /\ UNCHANGED <<rendered, queue, ls, db, inflight>>
     /\ calls' # calls =>
          /\ last'.task \in DestructiveTasks
          /\ last'.phase \in {"declined", "called"}]_vars

\* The prompt of the Clear History button was declined with trades on
\* screen: they are all still there.
C22_Witness ==
  /\ last.task = "clearTrades" /\ last.phase = "declined"
  /\ trades = TRADES /\ Len(trades) > 0
  /\ queue = <<>> /\ inflight = {}

\* The cached trades once the continuations of requests first and then
\* second have run and are rendered.
TradesAfter(first, second) ==
  Fold(queue \o Continue(first) \o Continue(second), "trades", trades)

\* C23 as the specification states it: when the writes of two editTrade
\* calls on the same trade, in flight at once, have both succeeded, then
\* whichever continuation runs first, the cached trade afterwards has the
\* value of every field either call updated and is the row of the table.
C23_ConcurrentEditsConverge ==
  \A r1 \in inflight, r2 \in inflight :
    (/\ r1 # r2
     /\ r1.task = "editTrade" /\ r2.task = "editTrade"
     /\ r1.id = r2.id
     /\ r1.stage = "ok" /\ r2.stage = "ok") =>
      LET cached == Find(TradesAfter(r1, r2), r1.id)
      IN  /\ Len(cached) = 1
          /\ \A f \in DOMAIN r1.val \ {"pnl"} : cached[1][f] = r1.val[f]
          /\ \A f \in DOMAIN r2.val \ {"pnl"} : cached[1][f] = r2.val[f]
          /\ cached[1] \in db["trades"]

\* C24 as the specification states it: on the remote strategy, once the
\* load has ended and every continuation has run and is rendered, each
\* journal entry the table holds, the ones inserted during the load too,
\* is in the cached collection.
C24_LoadKeepsEarlierInserts ==
  (configured /\ Ready /\ queue = <<>> /\ inflight = {}) =>
    \A row \in db["journalEntries"] : row \in Range(journalEntries)

\* The collection of the add handler that ran in this step.
AddedTo == IF last'.task = "addJournalEntry" THEN "journalEntries" ELSE "trades"

\* C25 as the specification states it: when an add handler of the local
\* strategy has been called twice before React renders, the collection the
\* next render shows has both new records, and when both calls stored
\* their text, the stored copy is that collection.
C25_NoAddLost ==
  [][last'.phase = "calledAgain" =>
       LET shown == Fold(queue', AddedTo, Coll(AddedTo))
       IN  /\ Len(shown) = Len(Coll(AddedTo)) + 2
           /\ (last.ok /\ last'.ok) => Parse(ls'[AddedTo][1]) = shown]_vars

\* The coin on screen carries the new ticker.
Retokened == \E i \in 1..Len(portfolioItems) : portfolioItems[i].token = "ETH"

\* A refresh cycle is asking the feed for the new ticker.
NewTickerRequested == \E cy \in cycles : "ETH" \in CryptoTickers(cy.c.items)

C27_OneTimerNoneWhenEmpty ==
  /\ Len(interval) <= 1
  /\ Len(portfolioItems) = 0 => interval = Null

\* The only item was deleted and the render has run the polling effect:
\* the collection is empty after the load, and no timer is active.
C27_Witness ==
  /\ last.task = "deletePortfolioItem" /\ last.phase = "rendered"
  /\ ~loading /\ fetchPc = "done"
  /\ portfolioItems = <<>>
  /\ interval = Null

\* C28: a call of editTrade with an id no cached trade has returns at
\* once: nothing is queued for the trades or for anything else, no request
\* is sent, no table and no stored text changes.
C28_EditOfUnknownIdChangesNothing ==
  [][(last'.task = "editTrade" /\ last'.phase = "called"
        /\ last'.arg \notin Ids(trades)) =>
       /\ UNCHANGED <<rendered, queue, inflight, db, ls>>
       /\ Rendered("trades", trades)' = Rendered("trades", trades)
       /\ ~last'.ok]_vars

\* editTrade was called with an id that none of the cached trades has.
C28_Witness ==
  /\ last.task = "editTrade" /\ last.phase = "called"
  /\ trades # <<>> /\ last.arg \notin Ids(trades)
  /\ queue = <<>> /\ inflight = {}

\* ----------------------------------------------------------- SpecReload

\* The page is reloaded: the provider is constructed anew, with the React
\* state of a first render and no timer; what localStorage and the backend
\* hold stays.  The mount effect then calls fetchData again.
Reload ==
  /\ inflight = {}
  /\ mounted' = TRUE
  /\ formData' = EmptyForm
  /\ loading' = TRUE
  /\ journalEntries' = <<>>
  /\ portfolioItems' = <<>>
  /\ trades' = <<>>
  /\ livePrices' = <<>>
  /\ lastUpdated' = 0
  /\ isRefreshing' = FALSE
  /\ queue' = <<>>
  /\ fetchPc' = "init"
  /\ fetched' = [k \in Keys |-> Null]
  /\ cycles' = {}
  /\ interval' = Null
  /\ timeouts' = {}
  /\ effectDeps' = <<TRUE, 0>>
  /\ last' = Did("mount", "rendered", TRUE, Null)
  /\ UNCHANGED <<env, ls, db, inflight>>

\* No backend is configured.
LocalSettings == {[VITE_SUPABASE_URL |-> Null, VITE_SUPABASE_ANON_KEY |-> Null]}

\* Most calls of handlers and reloads explored in one behaviour of
\* SpecReload.
MaxSessionOps == 3

\* In SpecReload the user, on the local strategy, adds a trade, removes
\* records of the three collections, clears the trades, and reloads the
\* page between two tasks.
NextReload ==
  \/ Step(FetchDataLocal)
  \/ Step(\E w \in WalkChoices(Rendered("portfolioItems", portfolioItems)) \cup {<<>>} :
            Render(w))
  \/ Call(Ready /\ \E t \in NewTrades : AddTrade(t), MaxSessionOps)
  \/ Call(Ready /\ \E id \in Ids(journalEntries) : DeleteJournalEntry(id), MaxSessionOps)
  \/ Call(Ready /\ \E id \in Ids(portfolioItems) : DeletePortfolioItem(id), MaxSessionOps)
  \/ Call(Ready /\ \E id \in Ids(trades) : DeleteTrade(id), MaxSessionOps)
  \/ Call(Ready /\ ClearTrades, MaxSessionOps)
  \/ Call(Ready /\ queue = <<>> /\ Reload, MaxSessionOps)

SpecReload == InitWith(LocalSettings, [k \in Keys |-> Null]) /\ [][NextReload]_vars

\* The text stored under k is that of an empty array.
StoredEmpty(k) == ls[k] # Null /\ Parse(ls[k][1]) = <<>>

\* This step is a reload of the loaded page.
ReloadStep == fetchPc = "done" /\ ~loading /\ queue = <<>> /\ fetchPc' = "init"

\* This step renders what fetchData has loaded.
LoadRendered == last.task = "fetchData" /\ last.phase = "called" /\ last'.phase = "rendered"

\* From the reload to the render of the load nothing is stored, and a
\* stored empty array is loaded as an empty collection.
EmptyReadBack(k) ==
  /\ loading => ls' = ls
  /\ (LoadRendered /\ StoredEmpty(k)) => Coll(k)' = <<>>

\* C29: on the local strategy a collection that is empty when the page is
\* reloaded has an empty array stored under its key; nothing is stored
\* between the reload and the render of the load, and that render shows the
\* collection empty (the built-in records are not loaded).
C29_EmptiedStaysEmpty ==
  [][\A k \in Keys :
       /\ (ReloadStep /\ Coll(k) = <<>>) => StoredEmpty(k)
       /\ EmptyReadBack(k)]_vars

\* C29, when the write is stored: a handler that empties a collection and
\* whose setItem returns leaves an empty array stored under the key, and
\* that array is read back as an empty collection by the load after a
\* reload.
C29_StoredEmptyStaysEmpty ==
  [][\A k \in Keys :
       /\ (last'.phase = "called" /\ last'.ok /\ queue' # queue
             /\ Rendered(k, Coll(k)) # <<>> /\ Rendered(k, Coll(k))' = <<>>) =>
            StoredEmpty(k)'
       /\ EmptyReadBack(k)]_vars

\* After a reload the load is rendered: the trades, emptied in the session
\* before, are empty, and the journal, never written, holds the built-in
\* entries.
C29_Witness ==
  /\ ~configured /\ last.task = "fetchData" /\ last.phase = "rendered" /\ ~loading
  /\ StoredEmpty("trades") /\ trades = <<>>
  /\ ls["journalEntries"] = Null /\ journalEntries = JOURNAL_ENTRIES

\* The refreshPrices called in this step reads an empty portfolio: the
\* one on screen when the button calls it, the one of the render that set
\* the timer when a timer calls it.
SeesEmptyPortfolio ==
  /\ last'.task = "refreshPrices" /\ last'.phase = "called"
  /\ CASE last'.arg = "manual" -> portfolioItems = <<>>
       [] last'.arg = "interval" -> interval[1].items = <<>>
       [] last'.arg = "timeout" -> \E c \in timeouts \ timeouts' : c.items = <<>>
       [] OTHER -> FALSE

\* C30: a call of refreshPrices whose portfolio is empty returns at once:
\* the live prices, lastUpdated and isRefreshing stay as they are, on
\* screen and in the queue of updates, and no cycle awaits the feed that
\* did not before.
C30_EmptyRefreshHasNoEffect ==
  [][SeesEmptyPortfolio => UNCHANGED <<rendered, queue, cycles>>]_vars

\* A timer set while the portfolio was empty has called refreshPrices
\* after the portfolio got an item.
C30_Witness ==
  /\ last.task = "refreshPrices" /\ last.phase = "called" /\ last.arg = "timeout"
  /\ portfolioItems # <<>> /\ timeouts = {}
  /\ last.wrote = Null /\ \A cy \in cycles : cy.by # "timeout"

====
